---- MODULE Spec2Model ----
(***************************************************************************)
(* State-machine model of lib/h265dec.cpp: the H.265 parameter-set change  *)
(* cache (update_picture_parameters), the per-picture bitstream assembler  *)
(* (new_picture / decode_slice / end_picture) and the reference-set        *)
(* resolution of start_picture.                                            *)
(*                                                                         *)
(* C structures are records; C flags and integers are naturals (a flag is  *)
(* 0 or 1); a C pointer is a sequence of length 0 (NULL) or 1; a C array   *)
(* is a tuple.  Memory obtained zeroed (g_new0, GObject instance memory,   *)
(* the unnamed members of a compound literal) is the all-zero record.      *)
(***************************************************************************)
EXTENDS Integers, Sequences, FiniteSets, TLC

NULL == <<>>

Zero(fields) == [f \in fields |-> 0]

ZeroArray(n) == [i \in 1..n |-> 0]

\* GST_H265_MAX_SUB_LAYERS, the length of the SPS/VPS per-sub-layer arrays
GST_H265_MAX_SUB_LAYERS == 8

----------------------------------------------------------------------------
(* The parsed parameter sets (GstH265VPS, GstH265SPS, GstH265PPS).          *)

\* the scalar members of GstH265SPS that sps_cmp compares
SpsCmpScalars ==
  { "id", "max_sub_layers_minus1", "temporal_id_nesting_flag",
    "chroma_format_idc", "separate_colour_plane_flag",
    "pic_width_in_luma_samples", "pic_height_in_luma_samples",
    "conformance_window_flag", "conf_win_left_offset", "conf_win_right_offset",
    "conf_win_top_offset", "conf_win_bottom_offset",
    "bit_depth_luma_minus8", "bit_depth_chroma_minus8",
    "log2_max_pic_order_cnt_lsb_minus4", "sub_layer_ordering_info_present_flag",
    "log2_min_luma_coding_block_size_minus3",
    "log2_diff_max_min_luma_coding_block_size",
    "log2_min_transform_block_size_minus2",
    "log2_diff_max_min_transform_block_size",
    "max_transform_hierarchy_depth_inter", "max_transform_hierarchy_depth_intra",
    "scaling_list_enabled_flag", "scaling_list_data_present_flag",
    "amp_enabled_flag", "sample_adaptive_offset_enabled_flag",
    "pcm_enabled_flag", "pcm_sample_bit_depth_luma_minus1",
    "pcm_sample_bit_depth_chroma_minus1",
    "log2_min_pcm_luma_coding_block_size_minus3",
    "log2_diff_max_min_pcm_luma_coding_block_size",
    "pcm_loop_filter_disabled_flag", "num_short_term_ref_pic_sets",
    "long_term_ref_pics_present_flag", "num_long_term_ref_pics_sps",
    "temporal_mvp_enabled_flag", "strong_intra_smoothing_enabled_flag",
    "vui_parameters_present_flag", "sps_extension_flag",
    "sps_range_extension_flag", "sps_multilayer_extension_flag",
    "sps_3d_extension_flag", "sps_scc_extension_flag", "sps_extension_4bits",
    "chroma_array_type", "width", "height", "crop_rect_width",
    "crop_rect_height", "crop_rect_x", "crop_rect_y", "fps_num", "fps_den",
    "valid" }

\* the per-sub-layer arrays of GstH265SPS that sps_cmp compares entry by entry
SpsCmpArrays ==
  { "max_dec_pic_buffering_minus1", "max_num_reorder_pics",
    "max_latency_increase_plus1" }

\* the flags of GstH265VUIParams that fill_sps reads
VuiFlagFields ==
  { "aspect_ratio_info_present_flag", "overscan_info_present_flag",
    "overscan_appropriate_flag", "video_signal_type_present_flag",
    "video_full_range_flag", "colour_description_present_flag",
    "chroma_loc_info_present_flag", "neutral_chroma_indication_flag",
    "field_seq_flag", "frame_field_info_present_flag",
    "default_display_window_flag", "timing_info_present_flag",
    "poc_proportional_to_timing_flag", "hrd_parameters_present_flag",
    "bitstream_restriction_flag", "tiles_fixed_structure_flag",
    "motion_vectors_over_pic_boundaries_flag", "restricted_ref_pic_lists_flag" }

\* the values of GstH265VUIParams that fill_sps reads
VuiValueFields ==
  { "aspect_ratio_idc", "sar_width", "sar_height", "video_format",
    "colour_primaries", "transfer_characteristics", "matrix_coefficients",
    "chroma_sample_loc_type_top_field", "chroma_sample_loc_type_bottom_field",
    "def_disp_win_left_offset", "def_disp_win_right_offset",
    "def_disp_win_top_offset", "def_disp_win_bottom_offset",
    "num_units_in_tick", "time_scale", "num_ticks_poc_diff_one_minus1",
    "min_spatial_segmentation_idc", "max_bytes_per_pic_denom",
    "max_bits_per_min_cu_denom", "log2_max_mv_length_horizontal",
    "log2_max_mv_length_vertical" }

\* GstH265HRDParams, of which only bit_rate_scale is read
ZeroHrdParams == [bit_rate_scale |-> 0]

ZeroVuiParams ==
  Zero(VuiFlagFields \cup VuiValueFields) @@ [hrd_params |-> ZeroHrdParams]

\* GstH265SPSExtensionParams (range extension)
SpsExtensionFields ==
  { "transform_skip_rotation_enabled_flag", "transform_skip_context_enabled_flag",
    "implicit_rdpcm_enabled_flag", "explicit_rdpcm_enabled_flag",
    "extended_precision_processing_flag", "intra_smoothing_disabled_flag",
    "high_precision_offsets_enabled_flag",
    "persistent_rice_adaptation_enabled_flag",
    "cabac_bypass_alignment_enabled_flag" }

\* GstH265SPSSccExtensionParams
SpsSccExtensionFields ==
  { "sps_curr_pic_ref_enabled_flag", "palette_mode_enabled_flag",
    "palette_max_size", "delta_palette_max_predictor_size",
    "sps_palette_predictor_initializers_present_flag",
    "sps_num_palette_predictor_initializer_minus1",
    "motion_vector_resolution_control_idc",
    "intra_boundary_filtering_disabled_flag" }

\* GstH265ProfileTierLevel, the members read by this file
ZeroProfileTierLevel ==
  [profile_idc |-> 0, level_idc |-> 0, progressive_source_flag |-> 0,
   interlaced_source_flag |-> 0]

\* the members of GstH265VPS that vps_cmp compares
VpsCmpScalars ==
  { "id", "base_layer_internal_flag", "base_layer_available_flag",
    "max_layers_minus1", "max_sub_layers_minus1", "temporal_id_nesting_flag",
    "sub_layer_ordering_info_present_flag", "max_layer_id",
    "num_layer_sets_minus1", "timing_info_present_flag", "num_units_in_tick",
    "time_scale", "poc_proportional_to_timing_flag",
    "num_ticks_poc_diff_one_minus1", "num_hrd_parameters", "hrd_layer_set_idx",
    "cprms_present_flag", "vps_extension", "valid" }

\* a zeroed GstH265VPS
ZeroVPS ==
  Zero(VpsCmpScalars)
    @@ [a \in SpsCmpArrays |-> ZeroArray(GST_H265_MAX_SUB_LAYERS)]
    @@ [profile_tier_level |-> ZeroProfileTierLevel,
        hrd_params |-> ZeroHrdParams]

\* a zeroed GstH265SPS
ZeroSPS ==
  Zero(SpsCmpScalars)
    @@ [a \in SpsCmpArrays |-> ZeroArray(GST_H265_MAX_SUB_LAYERS)]
    @@ [vps_id |-> 0, vps |-> NULL,
        profile_tier_level |-> ZeroProfileTierLevel,
        scaling_list |-> 0,
        vui_params |-> ZeroVuiParams,
        sps_extension_params |-> Zero(SpsExtensionFields),
        sps_scc_extension_params |-> Zero(SpsSccExtensionFields)]

\* the scalar members of GstH265PPS that pps_cmp compares
PpsCmpScalars ==
  { "id", "dependent_slice_segments_enabled_flag", "output_flag_present_flag",
    "num_extra_slice_header_bits", "sign_data_hiding_enabled_flag",
    "cabac_init_present_flag", "num_ref_idx_l0_default_active_minus1",
    "num_ref_idx_l1_default_active_minus1", "init_qp_minus26",
    "constrained_intra_pred_flag", "transform_skip_enabled_flag",
    "cu_qp_delta_enabled_flag", "diff_cu_qp_delta_depth", "cb_qp_offset",
    "cr_qp_offset", "slice_chroma_qp_offsets_present_flag",
    "weighted_pred_flag", "weighted_bipred_flag",
    "transquant_bypass_enabled_flag", "tiles_enabled_flag",
    "entropy_coding_sync_enabled_flag", "num_tile_columns_minus1",
    "num_tile_rows_minus1", "uniform_spacing_flag",
    "loop_filter_across_tiles_enabled_flag",
    "loop_filter_across_slices_enabled_flag",
    "deblocking_filter_control_present_flag",
    "deblocking_filter_override_enabled_flag",
    "deblocking_filter_disabled_flag", "beta_offset_div2", "tc_offset_div2",
    "scaling_list_data_present_flag", "lists_modification_present_flag",
    "log2_parallel_merge_level_minus2",
    "slice_segment_header_extension_present_flag", "pps_extension_flag",
    "pps_range_extension_flag", "pps_multilayer_extension_flag",
    "pps_3d_extension_flag", "pps_scc_extension_flag", "pps_extension_4bits",
    "PicWidthInCtbsY", "PicHeightInCtbsY", "valid" }

\* the lengths of GstH265PPS.column_width_minus1 and .row_height_minus1
GstTileColumns == 20

GstTileRows == 22

\* the length of GstH265PPSExtensionParams.cb_qp_offset_list / cr_qp_offset_list
ChromaQpOffsetListSize == 6

\* GstH265PPSExtensionParams (range extension), scalar members
PpsExtensionFields ==
  { "log2_max_transform_skip_block_size_minus2",
    "cross_component_prediction_enabled_flag",
    "chroma_qp_offset_list_enabled_flag", "diff_cu_chroma_qp_offset_depth",
    "chroma_qp_offset_list_len_minus1", "log2_sao_offset_scale_luma",
    "log2_sao_offset_scale_chroma" }

ZeroPpsExtensionParams ==
  Zero(PpsExtensionFields)
    @@ [cb_qp_offset_list |-> ZeroArray(ChromaQpOffsetListSize),
        cr_qp_offset_list |-> ZeroArray(ChromaQpOffsetListSize)]

\* GstH265PPSSccExtensionParams
PpsSccExtensionFields ==
  { "pps_curr_pic_ref_enabled_flag",
    "residual_adaptive_colour_transform_enabled_flag",
    "pps_slice_act_qp_offsets_present_flag", "pps_act_y_qp_offset_plus5",
    "pps_act_cb_qp_offset_plus5", "pps_act_cr_qp_offset_plus3",
    "pps_palette_predictor_initializers_present_flag",
    "pps_num_palette_predictor_initializer", "monochrome_palette_flag",
    "luma_bit_depth_entry_minus8", "chroma_bit_depth_entry_minus8" }

\* a zeroed GstH265PPS
ZeroPPS ==
  Zero(PpsCmpScalars)
    @@ [sps_id |-> 0, sps |-> NULL,
        column_width_minus1 |-> ZeroArray(GstTileColumns),
        row_height_minus1 |-> ZeroArray(GstTileRows),
        scaling_list |-> 0,
        pps_extension_params |-> ZeroPpsExtensionParams,
        pps_scc_extension_params |-> Zero(PpsSccExtensionFields)]

----------------------------------------------------------------------------
(* Change detection: sps_cmp, pps_cmp, vps_cmp return true when every       *)
(* compared member is equal.                                                *)

\* variant of sps_cmp: the valid member is not compared
sps_cmp_ignoring_valid(a, b) ==
  /\ \A f \in SpsCmpScalars \ {"valid"} : a[f] = b[f]
  /\ \A f \in SpsCmpArrays :
       \A i \in 1..GST_H265_MAX_SUB_LAYERS : a[f][i] = b[f][i]

sps_cmp(a, b) ==
  /\ \A f \in SpsCmpScalars : a[f] = b[f]
  /\ \A f \in SpsCmpArrays :
       \A i \in 1..GST_H265_MAX_SUB_LAYERS : a[f][i] = b[f][i]

pps_cmp(a, b) == \A f \in PpsCmpScalars : a[f] = b[f]

vps_cmp(a, b) == \A f \in VpsCmpScalars : a[f] = b[f]

(* The backend-facing descriptors (the StdVideoH265 structures), held in a  *)
(* VkH265Picture.                                                           *)

\* StdVideoH265SpsVuiFlags
StdVuiFlagFields ==
  { "aspect_ratio_info_present_flag", "overscan_info_present_flag",
    "overscan_appropriate_flag", "video_signal_type_present_flag",
    "video_full_range_flag", "colour_description_present_flag",
    "chroma_loc_info_present_flag", "neutral_chroma_indication_flag",
    "field_seq_flag", "frame_field_info_present_flag",
    "default_display_window_flag", "vui_timing_info_present_flag",
    "vui_poc_proportional_to_timing_flag", "vui_hrd_parameters_present_flag",
    "bitstream_restriction_flag", "tiles_fixed_structure_flag",
    "motion_vectors_over_pic_boundaries_flag", "restricted_ref_pic_lists_flag" }

\* StdVideoH265SequenceParameterSetVui, members other than flags
StdVuiValueFields ==
  { "aspect_ratio_idc", "sar_width", "sar_height", "video_format",
    "colour_primaries", "transfer_characteristics", "matrix_coeffs",
    "chroma_sample_loc_type_top_field", "chroma_sample_loc_type_bottom_field",
    "def_disp_win_left_offset", "def_disp_win_right_offset",
    "def_disp_win_top_offset", "def_disp_win_bottom_offset",
    "vui_num_units_in_tick", "vui_time_scale",
    "vui_num_ticks_poc_diff_one_minus1", "min_spatial_segmentation_idc",
    "max_bytes_per_pic_denom", "max_bits_per_min_cu_denom",
    "log2_max_mv_length_horizontal", "log2_max_mv_length_vertical" }

ZeroStdVui ==
  Zero(StdVuiValueFields)
    @@ [flags |-> Zero(StdVuiFlagFields), pHrdParameters |-> NULL]

\* StdVideoH265SpsFlags
StdSpsFlagFields ==
  { "sps_temporal_id_nesting_flag", "separate_colour_plane_flag",
    "scaling_list_enabled_flag", "sps_scaling_list_data_present_flag",
    "amp_enabled_flag", "sample_adaptive_offset_enabled_flag",
    "pcm_enabled_flag", "pcm_loop_filter_disabled_flag",
    "long_term_ref_pics_present_flag", "sps_temporal_mvp_enabled_flag",
    "strong_intra_smoothing_enabled_flag", "vui_parameters_present_flag",
    "sps_extension_present_flag", "sps_range_extension_flag",
    "transform_skip_rotation_enabled_flag",
    "transform_skip_context_enabled_flag", "implicit_rdpcm_enabled_flag",
    "explicit_rdpcm_enabled_flag", "extended_precision_processing_flag",
    "intra_smoothing_disabled_flag", "high_precision_offsets_enabled_flag",
    "persistent_rice_adaptation_enabled_flag",
    "cabac_bypass_alignment_enabled_flag", "sps_scc_extension_flag",
    "sps_curr_pic_ref_enabled_flag", "palette_mode_enabled_flag",
    "sps_palette_predictor_initializer_present_flag",
    "intra_boundary_filtering_disabled_flag" }

\* StdVideoH265SequenceParameterSet, members other than flags and pointers
StdSpsValueFields ==
  { "profile_idc", "level_idc", "pic_width_in_luma_samples",
    "pic_height_in_luma_samples", "sps_video_parameter_set_id",
    "sps_max_sub_layers_minus1", "sps_seq_parameter_set_id",
    "chroma_format_idc", "bit_depth_luma_minus8", "bit_depth_chroma_minus8",
    "log2_max_pic_order_cnt_lsb_minus4",
    "log2_min_luma_coding_block_size_minus3",
    "log2_diff_max_min_luma_coding_block_size",
    "log2_min_luma_transform_block_size_minus2",
    "log2_diff_max_min_luma_transform_block_size",
    "max_transform_hierarchy_depth_inter", "max_transform_hierarchy_depth_intra",
    "num_short_term_ref_pic_sets", "num_long_term_ref_pics_sps",
    "pcm_sample_bit_depth_luma_minus1", "pcm_sample_bit_depth_chroma_minus1",
    "log2_min_pcm_luma_coding_block_size_minus3",
    "log2_diff_max_min_pcm_luma_coding_block_size",
    "conf_win_left_offset", "conf_win_right_offset", "conf_win_top_offset",
    "conf_win_bottom_offset", "palette_max_size",
    "delta_palette_max_predictor_size", "motion_vector_resolution_control_idc",
    "sps_num_palette_predictor_initializer_minus1" }

ZeroStdSps ==
  Zero(StdSpsValueFields)
    @@ [flags |-> Zero(StdSpsFlagFields), pDecPicBufMgr |-> NULL,
        pScalingLists |-> NULL, pSequenceParameterSetVui |-> NULL,
        pPredictorPaletteEntries |-> NULL]

\* StdVideoH265PpsFlags
StdPpsFlagFields ==
  { "dependent_slice_segments_enabled_flag", "output_flag_present_flag",
    "sign_data_hiding_enabled_flag", "cabac_init_present_flag",
    "constrained_intra_pred_flag", "transform_skip_enabled_flag",
    "cu_qp_delta_enabled_flag", "pps_slice_chroma_qp_offsets_present_flag",
    "weighted_pred_flag", "weighted_bipred_flag",
    "transquant_bypass_enabled_flag", "tiles_enabled_flag",
    "entropy_coding_sync_enabled_flag", "uniform_spacing_flag",
    "loop_filter_across_tiles_enabled_flag",
    "pps_loop_filter_across_slices_enabled_flag",
    "deblocking_filter_control_present_flag",
    "deblocking_filter_override_enabled_flag",
    "pps_deblocking_filter_disabled_flag", "pps_scaling_list_data_present_flag",
    "lists_modification_present_flag",
    "slice_segment_header_extension_present_flag",
    "pps_extension_present_flag", "cross_component_prediction_enabled_flag",
    "chroma_qp_offset_list_enabled_flag", "pps_curr_pic_ref_enabled_flag",
    "residual_adaptive_colour_transform_enabled_flag",
    "pps_slice_act_qp_offsets_present_flag",
    "pps_palette_predictor_initializer_present_flag",
    "monochrome_palette_flag", "pps_range_extension_flag" }

\* StdVideoH265PictureParameterSet, scalar members other than flags
StdPpsValueFields ==
  { "pps_pic_parameter_set_id", "pps_seq_parameter_set_id",
    "num_extra_slice_header_bits", "num_ref_idx_l0_default_active_minus1",
    "num_ref_idx_l1_default_active_minus1", "init_qp_minus26",
    "diff_cu_qp_delta_depth", "pps_cb_qp_offset", "pps_cr_qp_offset",
    "num_tile_columns_minus1", "num_tile_rows_minus1", "pps_beta_offset_div2",
    "pps_tc_offset_div2", "log2_parallel_merge_level_minus2",
    "log2_max_transform_skip_block_size_minus2",
    "diff_cu_chroma_qp_offset_depth", "chroma_qp_offset_list_len_minus1",
    "log2_sao_offset_scale_luma", "log2_sao_offset_scale_chroma",
    "pps_act_y_qp_offset_plus5", "pps_act_cb_qp_offset_plus5",
    "pps_act_cr_qp_offset_plus5", "pps_num_palette_predictor_initializer",
    "luma_bit_depth_entry_minus8", "chroma_bit_depth_entry_minus8" }

\* STD_VIDEO_H265_CHROMA_QP_OFFSET_TILE_COLS_LIST_SIZE, the length of the
\* descriptor's uint16_t column_width_minus1
StdTileColumns == 19

\* STD_VIDEO_H265_CHROMA_QP_OFFSET_TILE_ROWS_LIST_SIZE, the length of the
\* descriptor's uint16_t row_height_minus1
StdTileRows == 21

ZeroStdPps ==
  Zero(StdPpsValueFields)
    @@ [flags |-> Zero(StdPpsFlagFields),
        cb_qp_offset_list |-> ZeroArray(ChromaQpOffsetListSize),
        cr_qp_offset_list |-> ZeroArray(ChromaQpOffsetListSize),
        column_width_minus1 |-> ZeroArray(StdTileColumns),
        row_height_minus1 |-> ZeroArray(StdTileRows),
        pScalingLists |-> NULL, pPredictorPaletteEntries |-> NULL]

\* STD_VIDEO_H265_SUBLAYERS_MINUS1_LIST_SIZE, the length of the
\* StdVideoH265DecPicBufMgr arrays
StdSubLayers == 7

\* StdVideoH265DecPicBufMgr
ZeroStdDecPicBufMgr ==
  [max_latency_increase_plus1 |-> ZeroArray(StdSubLayers),
   max_dec_pic_buffering_minus1 |-> ZeroArray(StdSubLayers),
   max_num_reorder_pics |-> ZeroArray(StdSubLayers)]

\* StdVideoH265VideoParameterSet
ZeroStdVps ==
  [flags |-> Zero({ "vps_temporal_id_nesting_flag",
                    "vps_sub_layer_ordering_info_present_flag",
                    "vps_timing_info_present_flag",
                    "vps_poc_proportional_to_timing_flag" }),
   vps_video_parameter_set_id |-> 0, vps_max_sub_layers_minus1 |-> 0,
   vps_num_units_in_tick |-> 0, vps_time_scale |-> 0,
   vps_num_ticks_poc_diff_one_minus1 |-> 0,
   pDecPicBufMgr |-> NULL, pHrdParameters |-> NULL]

\* a zeroed VkH265Picture: the descriptors of one holder (the decoder's
\* shared self->vkp, or a picture session's vkpic->vkp).  A pointer into the
\* holder is <<member name>>.
VkH265Picture ==
  [vui |-> ZeroStdVui, sps |-> ZeroStdSps, pps |-> ZeroStdPps,
   vps |-> ZeroStdVps, pic_buf_mgr |-> ZeroStdDecPicBufMgr]

\* the low and the high half of a 32-bit value, and casts to narrower types
U8(x) == x % 256

U16(x) == x % 65536

Hi16(x) == (x \div 65536) % 65536

\* static_cast<int8_t>
I8(x) == LET m == x % 256 IN IF m >= 128 THEN m - 256 ELSE m


----------------------------------------------------------------------------
(* The converter: fill_sps, fill_pps, fill_vps write into a VkH265Picture   *)
(* and are modelled as the holder after the call.                           *)

\* STD_VIDEO_H265_PROFILE_IDC_* for a GST_H265_PROFILE_IDC_* value
get_profile_idc(profile_idc) ==
  CASE profile_idc = 1 -> 1
    [] profile_idc = 2 -> 2
    [] profile_idc = 3 -> 3
    [] profile_idc = 4 -> 4
    [] OTHER -> 2147483647

\* the compound literal assigned to vkp->vui
fill_sps_vui(v) ==
  [flags |->
     [aspect_ratio_info_present_flag |-> v.aspect_ratio_info_present_flag,
      overscan_info_present_flag |-> v.overscan_info_present_flag,
      overscan_appropriate_flag |-> v.overscan_appropriate_flag,
      video_signal_type_present_flag |-> v.video_signal_type_present_flag,
      video_full_range_flag |-> v.video_full_range_flag,
      colour_description_present_flag |-> v.colour_description_present_flag,
      chroma_loc_info_present_flag |-> v.chroma_loc_info_present_flag,
      neutral_chroma_indication_flag |-> v.neutral_chroma_indication_flag,
      field_seq_flag |-> v.field_seq_flag,
      frame_field_info_present_flag |-> v.frame_field_info_present_flag,
      default_display_window_flag |-> v.default_display_window_flag,
      vui_timing_info_present_flag |-> v.timing_info_present_flag,
      vui_poc_proportional_to_timing_flag |-> v.poc_proportional_to_timing_flag,
      vui_hrd_parameters_present_flag |-> v.hrd_parameters_present_flag,
      bitstream_restriction_flag |-> v.bitstream_restriction_flag,
      tiles_fixed_structure_flag |-> v.tiles_fixed_structure_flag,
      motion_vectors_over_pic_boundaries_flag |->
        v.motion_vectors_over_pic_boundaries_flag,
      restricted_ref_pic_lists_flag |-> v.restricted_ref_pic_lists_flag],
   aspect_ratio_idc |-> v.aspect_ratio_idc,
   sar_width |-> v.sar_width,
   sar_height |-> v.sar_height,
   video_format |-> v.video_format,
   colour_primaries |-> v.colour_primaries,
   transfer_characteristics |-> v.transfer_characteristics,
   matrix_coeffs |-> v.matrix_coefficients,
   chroma_sample_loc_type_top_field |-> v.chroma_sample_loc_type_top_field,
   chroma_sample_loc_type_bottom_field |-> v.chroma_sample_loc_type_bottom_field,
   def_disp_win_left_offset |-> U16(v.def_disp_win_left_offset),
   def_disp_win_right_offset |-> U16(v.def_disp_win_right_offset),
   def_disp_win_top_offset |-> U16(v.def_disp_win_top_offset),
   def_disp_win_bottom_offset |-> U16(v.def_disp_win_bottom_offset),
   vui_num_units_in_tick |-> v.num_units_in_tick,
   vui_time_scale |-> v.time_scale,
   vui_num_ticks_poc_diff_one_minus1 |-> v.num_ticks_poc_diff_one_minus1,
   min_spatial_segmentation_idc |-> v.min_spatial_segmentation_idc,
   max_bytes_per_pic_denom |-> v.max_bytes_per_pic_denom,
   max_bits_per_min_cu_denom |-> v.max_bits_per_min_cu_denom,
   log2_max_mv_length_horizontal |-> v.log2_max_mv_length_horizontal,
   log2_max_mv_length_vertical |-> v.log2_max_mv_length_vertical]
  @@ ZeroStdVui

\* the compound literal assigned to vkp->sps; members it does not name are 0
fill_sps_literal(sps) ==
  [flags |->
     [sps_temporal_id_nesting_flag |-> sps.temporal_id_nesting_flag,
      separate_colour_plane_flag |-> sps.separate_colour_plane_flag,
      scaling_list_enabled_flag |-> sps.scaling_list_enabled_flag,
      sps_scaling_list_data_present_flag |-> sps.scaling_list_data_present_flag,
      amp_enabled_flag |-> sps.amp_enabled_flag,
      sample_adaptive_offset_enabled_flag |->
        sps.sample_adaptive_offset_enabled_flag,
      pcm_enabled_flag |-> sps.pcm_enabled_flag,
      pcm_loop_filter_disabled_flag |-> sps.pcm_loop_filter_disabled_flag,
      long_term_ref_pics_present_flag |-> sps.long_term_ref_pics_present_flag,
      sps_temporal_mvp_enabled_flag |-> sps.temporal_mvp_enabled_flag,
      strong_intra_smoothing_enabled_flag |->
        sps.strong_intra_smoothing_enabled_flag,
      vui_parameters_present_flag |-> sps.vui_parameters_present_flag,
      sps_extension_present_flag |-> sps.sps_extension_flag,
      sps_range_extension_flag |-> sps.sps_range_extension_flag,
      sps_scc_extension_flag |-> sps.sps_scc_extension_flag,
      sps_curr_pic_ref_enabled_flag |->
        sps.sps_scc_extension_params.sps_curr_pic_ref_enabled_flag,
      palette_mode_enabled_flag |->
        sps.sps_scc_extension_params.palette_mode_enabled_flag,
      sps_palette_predictor_initializer_present_flag |->
        sps.sps_scc_extension_params.sps_palette_predictor_initializers_present_flag,
      intra_boundary_filtering_disabled_flag |->
        sps.sps_scc_extension_params.intra_boundary_filtering_disabled_flag]
     @@ Zero(StdSpsFlagFields),
   profile_idc |-> get_profile_idc(sps.profile_tier_level.profile_idc),
   level_idc |-> sps.profile_tier_level.level_idc,
   pic_width_in_luma_samples |-> sps.pic_width_in_luma_samples,
   pic_height_in_luma_samples |-> sps.pic_height_in_luma_samples,
   sps_max_sub_layers_minus1 |-> sps.max_sub_layers_minus1,
   sps_seq_parameter_set_id |-> sps.id,
   chroma_format_idc |-> sps.chroma_format_idc,
   bit_depth_luma_minus8 |-> sps.bit_depth_luma_minus8,
   bit_depth_chroma_minus8 |-> sps.bit_depth_chroma_minus8,
   log2_max_pic_order_cnt_lsb_minus4 |-> sps.log2_max_pic_order_cnt_lsb_minus4,
   log2_min_luma_coding_block_size_minus3 |->
     sps.log2_min_luma_coding_block_size_minus3,
   log2_diff_max_min_luma_coding_block_size |->
     sps.log2_diff_max_min_luma_coding_block_size,
   log2_min_luma_transform_block_size_minus2 |->
     sps.log2_min_transform_block_size_minus2,
   log2_diff_max_min_luma_transform_block_size |->
     sps.log2_diff_max_min_transform_block_size,
   max_transform_hierarchy_depth_inter |-> sps.max_transform_hierarchy_depth_inter,
   max_transform_hierarchy_depth_intra |-> sps.max_transform_hierarchy_depth_intra,
   num_short_term_ref_pic_sets |-> sps.num_short_term_ref_pic_sets,
   num_long_term_ref_pics_sps |-> sps.num_long_term_ref_pics_sps,
   pcm_sample_bit_depth_luma_minus1 |-> sps.pcm_sample_bit_depth_luma_minus1,
   pcm_sample_bit_depth_chroma_minus1 |-> sps.pcm_sample_bit_depth_chroma_minus1,
   log2_min_pcm_luma_coding_block_size_minus3 |->
     sps.log2_min_pcm_luma_coding_block_size_minus3,
   log2_diff_max_min_pcm_luma_coding_block_size |->
     sps.log2_diff_max_min_pcm_luma_coding_block_size,
   conf_win_left_offset |-> sps.conf_win_left_offset,
   conf_win_right_offset |-> sps.conf_win_right_offset,
   conf_win_top_offset |-> sps.conf_win_top_offset,
   conf_win_bottom_offset |-> sps.conf_win_bottom_offset,
   pDecPicBufMgr |-> <<"pic_buf_mgr">>]
  @@ ZeroStdSps

\* the range-extension flags written when sps_extension_flag is set
fill_sps_extension(sps, flags) ==
  LET e == sps.sps_extension_params IN
  [flags EXCEPT
     !.transform_skip_rotation_enabled_flag =
        e.transform_skip_context_enabled_flag,
     !.transform_skip_context_enabled_flag =
        e.transform_skip_context_enabled_flag,
     !.implicit_rdpcm_enabled_flag = e.implicit_rdpcm_enabled_flag,
     !.explicit_rdpcm_enabled_flag = e.explicit_rdpcm_enabled_flag,
     !.extended_precision_processing_flag =
        e.extended_precision_processing_flag,
     !.intra_smoothing_disabled_flag = e.intra_smoothing_disabled_flag,
     !.high_precision_offsets_enabled_flag =
        e.high_precision_offsets_enabled_flag,
     !.persistent_rice_adaptation_enabled_flag =
        e.persistent_rice_adaptation_enabled_flag,
     !.cabac_bypass_alignment_enabled_flag =
        e.cabac_bypass_alignment_enabled_flag]

\* the screen-content values written when sps_scc_extension_flag is set
fill_sps_scc(sps, d) ==
  LET e == sps.sps_scc_extension_params IN
  [d EXCEPT
     !.palette_max_size = e.palette_max_size,
     !.delta_palette_max_predictor_size = e.delta_palette_max_predictor_size,
     !.motion_vector_resolution_control_idc =
        e.motion_vector_resolution_control_idc,
     !.sps_num_palette_predictor_initializer_minus1 =
        e.sps_num_palette_predictor_initializer_minus1]

fill_sps(sps, vkp) ==
  LET vui == IF sps.vui_parameters_present_flag # 0
               THEN fill_sps_vui(sps.vui_params)
               ELSE vkp.vui
      d0 == fill_sps_literal(sps)
      d1 == IF sps.vps # NULL
              THEN [d0 EXCEPT !.sps_video_parameter_set_id = sps.vps[1].id]
              ELSE d0
      d2 == IF sps.sps_extension_flag # 0
              THEN [d1 EXCEPT !.flags = fill_sps_extension(sps, d1.flags)]
              ELSE d1
      d3 == IF sps.sps_scc_extension_flag # 0 THEN fill_sps_scc(sps, d2) ELSE d2
      d4 == IF sps.vui_parameters_present_flag # 0
              THEN [d3 EXCEPT !.pSequenceParameterSetVui = <<"vui">>]
              ELSE d3
  IN  [vkp EXCEPT !.vui = vui, !.sps = d4]


\* memcpy of sizeof(dst) bytes from a guint32 array into a uint16_t array of
\* n entries (little-endian): entry k receives one half of source entry k/2
memcpy_u32_to_u16(src, n) ==
  [k \in 1..n |->
     LET e == src[((k - 1) \div 2) + 1]
     IN  IF (k - 1) % 2 = 0 THEN U16(e) ELSE Hi16(e)]

\* an array member initialised from one scalar: the first entry takes the
\* value, the remaining entries are zero
array_from_scalar(x, n) == [k \in 1..n |-> IF k = 1 THEN x ELSE 0]

\* the compound literal assigned to vkp->pps; members it does not name are 0
fill_pps_literal(pps) ==
  LET e == pps.pps_extension_params
      c == pps.pps_scc_extension_params
  IN
  [flags |->
     [dependent_slice_segments_enabled_flag |->
        pps.dependent_slice_segments_enabled_flag,
      output_flag_present_flag |-> pps.output_flag_present_flag,
      sign_data_hiding_enabled_flag |-> pps.sign_data_hiding_enabled_flag,
      cabac_init_present_flag |-> pps.cabac_init_present_flag,
      constrained_intra_pred_flag |-> pps.constrained_intra_pred_flag,
      transform_skip_enabled_flag |-> pps.transform_skip_enabled_flag,
      cu_qp_delta_enabled_flag |-> pps.cu_qp_delta_enabled_flag,
      pps_slice_chroma_qp_offsets_present_flag |->
        pps.slice_chroma_qp_offsets_present_flag,
      weighted_pred_flag |-> pps.weighted_pred_flag,
      weighted_bipred_flag |-> pps.weighted_bipred_flag,
      transquant_bypass_enabled_flag |-> pps.transquant_bypass_enabled_flag,
      tiles_enabled_flag |-> pps.tiles_enabled_flag,
      entropy_coding_sync_enabled_flag |-> pps.entropy_coding_sync_enabled_flag,
      uniform_spacing_flag |-> pps.uniform_spacing_flag,
      loop_filter_across_tiles_enabled_flag |->
        pps.loop_filter_across_tiles_enabled_flag,
      pps_loop_filter_across_slices_enabled_flag |->
        pps.loop_filter_across_slices_enabled_flag,
      deblocking_filter_control_present_flag |->
        pps.deblocking_filter_control_present_flag,
      deblocking_filter_override_enabled_flag |->
        pps.deblocking_filter_override_enabled_flag,
      pps_deblocking_filter_disabled_flag |-> pps.deblocking_filter_disabled_flag,
      pps_scaling_list_data_present_flag |-> pps.scaling_list_data_present_flag,
      lists_modification_present_flag |-> pps.lists_modification_present_flag,
      slice_segment_header_extension_present_flag |->
        pps.slice_segment_header_extension_present_flag,
      pps_extension_present_flag |-> pps.pps_extension_flag,
      cross_component_prediction_enabled_flag |->
        e.cross_component_prediction_enabled_flag,
      chroma_qp_offset_list_enabled_flag |-> e.chroma_qp_offset_list_enabled_flag,
      pps_curr_pic_ref_enabled_flag |-> c.pps_curr_pic_ref_enabled_flag,
      residual_adaptive_colour_transform_enabled_flag |->
        c.residual_adaptive_colour_transform_enabled_flag,
      pps_slice_act_qp_offsets_present_flag |->
        c.pps_slice_act_qp_offsets_present_flag,
      pps_palette_predictor_initializer_present_flag |->
        c.pps_palette_predictor_initializers_present_flag,
      monochrome_palette_flag |-> c.monochrome_palette_flag,
      pps_range_extension_flag |-> pps.pps_range_extension_flag],
   pps_pic_parameter_set_id |-> U8(pps.id),
   pps_seq_parameter_set_id |-> U8(pps.sps_id),
   num_extra_slice_header_bits |-> pps.num_extra_slice_header_bits,
   num_ref_idx_l0_default_active_minus1 |->
     pps.num_ref_idx_l0_default_active_minus1,
   num_ref_idx_l1_default_active_minus1 |->
     pps.num_ref_idx_l1_default_active_minus1,
   init_qp_minus26 |-> pps.init_qp_minus26,
   diff_cu_qp_delta_depth |-> pps.diff_cu_qp_delta_depth,
   pps_cb_qp_offset |-> pps.cb_qp_offset,
   pps_cr_qp_offset |-> pps.cr_qp_offset,
   num_tile_columns_minus1 |-> pps.num_tile_columns_minus1,
   num_tile_rows_minus1 |-> pps.num_tile_rows_minus1,
   pps_beta_offset_div2 |-> pps.beta_offset_div2,
   pps_tc_offset_div2 |-> pps.tc_offset_div2,
   log2_parallel_merge_level_minus2 |-> pps.log2_parallel_merge_level_minus2,
   log2_max_transform_skip_block_size_minus2 |->
     U8(e.log2_max_transform_skip_block_size_minus2),
   diff_cu_chroma_qp_offset_depth |-> e.diff_cu_chroma_qp_offset_depth,
   chroma_qp_offset_list_len_minus1 |-> e.chroma_qp_offset_list_len_minus1,
   cb_qp_offset_list |->
     array_from_scalar(pps.cb_qp_offset, ChromaQpOffsetListSize),
   cr_qp_offset_list |->
     array_from_scalar(pps.cr_qp_offset, ChromaQpOffsetListSize),
   log2_sao_offset_scale_luma |-> e.log2_sao_offset_scale_luma,
   log2_sao_offset_scale_chroma |-> e.log2_sao_offset_scale_chroma,
   pps_act_y_qp_offset_plus5 |-> I8(c.pps_act_y_qp_offset_plus5),
   pps_act_cb_qp_offset_plus5 |-> I8(c.pps_act_cb_qp_offset_plus5),
   pps_act_cr_qp_offset_plus5 |-> I8(c.pps_act_cr_qp_offset_plus3),
   pps_num_palette_predictor_initializer |->
     c.pps_num_palette_predictor_initializer,
   luma_bit_depth_entry_minus8 |-> c.luma_bit_depth_entry_minus8,
   chroma_bit_depth_entry_minus8 |-> U8(c.chroma_bit_depth_entry_minus8)]
  @@ ZeroStdPps

fill_pps(pps, vkp) ==
  LET d0 == fill_pps_literal(pps)
      d1 == [d0 EXCEPT
               !.column_width_minus1 =
                  memcpy_u32_to_u16(pps.column_width_minus1, StdTileColumns),
               !.row_height_minus1 =
                  memcpy_u32_to_u16(pps.row_height_minus1, StdTileRows)]
  IN  [vkp EXCEPT !.pps = d1]


\* memcpy of bytes bytes from a guint32 array over a uint32_t array
\* (little-endian): whole entries first, then the low bytes of the next one
memcpy_u32_bytes(dst, src, bytes) ==
  [k \in 1..Len(dst) |->
     IF 4 * k <= bytes THEN src[k]
     ELSE IF 4 * (k - 1) < bytes
       THEN LET low == 256 ^ (bytes - 4 * (k - 1))
            IN  (dst[k] \div low) * low + (src[k] % low)
       ELSE dst[k]]

\* the compound literal assigned to vkp->vps; members it does not name are 0
fill_vps_literal(vps) ==
  [ZeroStdVps EXCEPT
     !.flags.vps_temporal_id_nesting_flag = vps.temporal_id_nesting_flag,
     !.flags.vps_sub_layer_ordering_info_present_flag =
        vps.sub_layer_ordering_info_present_flag,
     !.flags.vps_timing_info_present_flag = vps.timing_info_present_flag,
     !.flags.vps_poc_proportional_to_timing_flag =
        vps.poc_proportional_to_timing_flag,
     !.vps_video_parameter_set_id = U8(vps.id),
     !.vps_max_sub_layers_minus1 = vps.max_sub_layers_minus1,
     !.vps_num_units_in_tick = vps.num_units_in_tick,
     !.vps_time_scale = vps.time_scale,
     !.vps_num_ticks_poc_diff_one_minus1 = vps.num_ticks_poc_diff_one_minus1]

\* fill_vps (vps, vkp): the three memcpy copy StdSubLayers bytes each, which
\* is every entry of the two byte arrays and one entry and three bytes of
\* max_latency_increase_plus1
fill_vps(vps, vkp) ==
  [vkp EXCEPT
     !.vps = [fill_vps_literal(vps) EXCEPT !.pDecPicBufMgr = <<"pic_buf_mgr">>],
     !.pic_buf_mgr =
        [max_latency_increase_plus1 |->
           memcpy_u32_bytes(@.max_latency_increase_plus1,
                            vps.max_latency_increase_plus1, StdSubLayers),
         max_dec_pic_buffering_minus1 |->
           [k \in 1..StdSubLayers |-> vps.max_dec_pic_buffering_minus1[k]],
         max_num_reorder_pics |->
           [k \in 1..StdSubLayers |-> vps.max_num_reorder_pics[k]]]]

----------------------------------------------------------------------------
(* Bounds of the model and the inputs the upstream parser supplies.         *)

\* accepted changes per parameter kind explored; the guint32 counters stay
\* far below their wrap-around within this bound
MaxUpdates == 2

\* slices appended to one picture
MaxSlices == 2

\* bytes of one slice payload
MaxPayload == 1

\* reference table maximum: G_N_ELEMENTS (h265->RefPics)
MaxRefPics == 16

\* a VPS as the parser delivers it
MkVps(id, reorder) ==
  [ZeroVPS EXCEPT !.id = id, !.valid = 1, !.max_sub_layers_minus1 = 1,
                  !.max_num_reorder_pics[1] = reorder]

\* VPS records: two ids, and a member vps_cmp does not compare
VpsInputs == { MkVps(0, 0), MkVps(0, 2), MkVps(1, 0) }

\* an SPS as the parser delivers it: vui is <<present flag, video_format>>,
\* ext is <<sps_extension_flag, rotation flag, context flag>>
MkSps(id, vui, ext, vps) ==
  [ZeroSPS EXCEPT
     !.id = id, !.valid = 1, !.chroma_format_idc = 1,
     !.pic_width_in_luma_samples = 64, !.pic_height_in_luma_samples = 32,
     !.width = 64, !.height = 32,
     !.profile_tier_level.profile_idc = 1,
     !.vps = vps,
     !.vui_parameters_present_flag = vui[1],
     !.vui_params.video_format = vui[2],
     !.sps_extension_flag = ext[1],
     !.sps_range_extension_flag = ext[1],
     !.sps_extension_params.transform_skip_rotation_enabled_flag = ext[2],
     !.sps_extension_params.transform_skip_context_enabled_flag = ext[3]]

\* SPS records: they differ in compared members (id, the presence flags) and
\* in members sps_cmp does not compare (the VUI content, the extension
\* content, the VPS back-pointer)
SpsInputs ==
  { MkSps(0, <<0, 0>>, <<0, 0, 0>>, NULL),
    MkSps(0, <<1, 0>>, <<0, 0, 0>>, NULL),
    MkSps(0, <<1, 5>>, <<0, 0, 0>>, NULL),
    MkSps(1, <<1, 5>>, <<1, 1, 0>>, <<MkVps(1, 0)>>) }

\* a PPS as the parser delivers it
MkPps(id, qp, col) ==
  [ZeroPPS EXCEPT
     !.id = id, !.valid = 1, !.init_qp_minus26 = qp,
     !.PicWidthInCtbsY = 4, !.PicHeightInCtbsY = 2,
     !.cb_qp_offset = qp,
     !.column_width_minus1[1] = col]

\* PPS records: they differ in compared members (id, init_qp_minus26) and in a
\* member pps_cmp does not compare (the tile column widths)
PpsInputs == { MkPps(0, 0, 0), MkPps(0, 0, 70000), MkPps(1, 3, 0) }

\* an SPS whose guarded sub-structures all hold nonzero members, with the
\* three presence flags as given
MkSpsGuarded(vui, ext, scc) ==
  [ZeroSPS EXCEPT
     !.id = 0, !.valid = 1, !.chroma_format_idc = 1,
     !.vui_parameters_present_flag = vui,
     !.vui_params.video_format = 5,
     !.sps_extension_flag = ext,
     !.sps_range_extension_flag = ext,
     !.sps_extension_params.implicit_rdpcm_enabled_flag = 1,
     !.sps_extension_params.transform_skip_context_enabled_flag = 1,
     !.sps_scc_extension_flag = scc,
     !.sps_scc_extension_params.palette_mode_enabled_flag = 1,
     !.sps_scc_extension_params.palette_max_size = 3,
     !.max_dec_pic_buffering_minus1[1] = 4,
     !.max_num_reorder_pics[1] = 2]

\* SPS records for the conversion: no flag set, and each flag set alone
SpsGuarded ==
  { MkSpsGuarded(0, 0, 0), MkSpsGuarded(1, 0, 0),
    MkSpsGuarded(0, 1, 0), MkSpsGuarded(0, 0, 1) }

\* a PPS whose guarded sub-structures hold nonzero members, with the two
\* presence flags as given
MkPpsGuarded(ext, scc) ==
  [ZeroPPS EXCEPT
     !.id = 0, !.valid = 1,
     !.pps_extension_flag = IF ext + scc > 0 THEN 1 ELSE 0,
     !.pps_range_extension_flag = ext,
     !.pps_extension_params.chroma_qp_offset_list_enabled_flag = 1,
     !.pps_extension_params.diff_cu_chroma_qp_offset_depth = 2,
     !.pps_scc_extension_flag = scc,
     !.pps_scc_extension_params.monochrome_palette_flag = 1,
     !.pps_scc_extension_params.pps_act_cr_qp_offset_plus3 = 3,
     !.pps_extension_params.cb_qp_offset_list[1] = 1,
     !.cb_qp_offset = 2,
     !.num_tile_columns_minus1 = 2,
     !.column_width_minus1[1] = 5,
     !.column_width_minus1[2] = 7,
     !.pps_scc_extension_params.luma_bit_depth_entry_minus8 = 2]

\* PPS records for the conversion: no flag set, and each flag set alone
PpsGuarded == { MkPpsGuarded(0, 0), MkPpsGuarded(1, 0), MkPpsGuarded(0, 1) }

----------------------------------------------------------------------------
(* State.                                                                   *)

VARIABLES
  client,            \* self->client is set (construct-only property user-data)
  oob_pic_params,    \* self->oob_pic_params (construct-only property)
  last_sps,          \* self->last_sps
  last_pps,          \* self->last_pps
  last_vps,          \* self->last_vps
  vkp,               \* self->vkp, the shared descriptors
  sps_update_count,  \* self->sps_update_count
  pps_update_count,  \* self->pps_update_count
  spsclient,         \* self->spsclient, the SPS correlation token, or NULL
  ppsclient,         \* self->ppsclient
  vpsclient,         \* self->vpsclient
  pc,                \* where the driver is in the current picture's lifecycle
  vkpic,             \* the current picture's session (struct VkPic), or NULL
  op,                \* the operation that ran last and its arguments
  calls              \* the backend calls made by that operation, in order

cache == <<last_sps, last_pps, last_vps, vkp, sps_update_count, pps_update_count>>

config == <<client, oob_pic_params>>

session == <<pc, vkpic>>

tokens == <<spsclient, ppsclient, vpsclient>>

vars == <<client, oob_pic_params, last_sps, last_pps, last_vps, vkp,
          sps_update_count, pps_update_count, spsclient, ppsclient, vpsclient,
          pc, vkpic, op, calls>>

\* gst_h265_dec_init on zeroed instance memory, then the construct-only
\* properties
Init ==
  /\ client \in BOOLEAN
  /\ oob_pic_params \in BOOLEAN
  /\ last_sps = ZeroSPS
  /\ last_pps = ZeroPPS
  /\ last_vps = ZeroVPS
  /\ vkp = VkH265Picture
  /\ sps_update_count = 0
  /\ pps_update_count = 0
  /\ spsclient = NULL
  /\ ppsclient = NULL
  /\ vpsclient = NULL
  /\ pc = "idle"
  /\ vkpic = NULL
  /\ op = [fn |-> "init"]
  /\ calls = <<>>

\* variant of BackendCalls: a call the backend fails is made a second time
BackendCalls_retried(cs) ==
  IF client
    THEN (IF \E i \in 1..Len(cs) : ~cs[i].ok THEN cs \o cs ELSE cs)
    ELSE <<>>

\* the backend calls of one operation: none without a client, else the given
BackendCalls(cs) == IF client THEN cs ELSE <<>>

\* client->UpdatePictureParameters (&params, token, params.updateSequenceCount)
\* returning ok; desc is the pointer params carries (&self->vkp.sps or
\* &self->vkp.pps), whose content at the time of the call is the vkp the
\* operation leaves
UpdatePictureParameters(type, desc, count, ok) ==
  [fn |-> "UpdatePictureParameters", updateType |-> type, desc |-> desc,
   updateSequenceCount |-> count, ok |-> ok]

\* variant of update_sps: no early return for a record sps_cmp finds equal
update_sps_without_return(sps, ok) ==
  /\ sps_update_count < MaxUpdates
  /\ last_sps' = sps
  /\ vkp' = fill_sps(sps, vkp)
  /\ sps_update_count' = sps_update_count + 1
  /\ calls' = BackendCalls(
       << UpdatePictureParameters("SPS", <<"self->vkp", "sps">>, sps_update_count, ok) >>)
  /\ UNCHANGED <<last_pps, last_vps, pps_update_count>>

\* variant of update_sps: the counter counts every observe, equal or not
update_sps_counting_observes(sps, ok) ==
  /\ sps_update_count < MaxUpdates
  /\ sps_update_count' = sps_update_count + 1
  /\ IF sps_cmp(last_sps, sps)
       THEN /\ calls' = <<>>
            /\ UNCHANGED <<last_sps, vkp>>
       ELSE /\ last_sps' = sps
            /\ vkp' = fill_sps(sps, vkp)
            /\ calls' = BackendCalls(
                 << UpdatePictureParameters("SPS", <<"self->vkp", "sps">>,
                                            sps_update_count, ok) >>)
  /\ UNCHANGED <<last_pps, last_vps, pps_update_count>>

\* variant of post_increment: ++count, the value is that after the increment
pre_increment(count) == [value |-> count + 1, after |-> count + 1]

\* count++ on a guint32 counter: the value of the expression and the counter
\* afterwards (the guards keep the counter below its wrap-around)
post_increment(count) == [value |-> count, after |-> count + 1]

\* case GST_H265_NAL_SPS
update_sps(sps, ok) ==
  IF sps_cmp(last_sps, sps)
    THEN /\ calls' = <<>>
         /\ UNCHANGED cache
    ELSE /\ sps_update_count < MaxUpdates
         /\ last_sps' = sps
         /\ vkp' = fill_sps(sps, vkp)
         /\ sps_update_count' = post_increment(sps_update_count).after
         /\ calls' = BackendCalls(
              << UpdatePictureParameters("SPS", <<"self->vkp", "sps">>,
                   post_increment(sps_update_count).value, ok) >>)
         /\ UNCHANGED <<last_pps, last_vps, pps_update_count>>

\* variant of update_pps: an accepted record is stored, converted and counted,
\* and the backend is not told
update_pps_without_publication(pps, ok) ==
  IF pps_cmp(last_pps, pps)
    THEN /\ calls' = <<>>
         /\ UNCHANGED cache
    ELSE /\ pps_update_count < MaxUpdates
         /\ last_pps' = pps
         /\ vkp' = fill_pps(pps, vkp)
         /\ pps_update_count' = pps_update_count + 1
         /\ calls' = <<>>
         /\ UNCHANGED <<last_sps, last_vps, sps_update_count>>

\* case GST_H265_NAL_PPS
update_pps(pps, ok) ==
  IF pps_cmp(last_pps, pps)
    THEN /\ calls' = <<>>
         /\ UNCHANGED cache
    ELSE /\ pps_update_count < MaxUpdates
         /\ last_pps' = pps
         /\ vkp' = fill_pps(pps, vkp)
         /\ pps_update_count' = post_increment(pps_update_count).after
         /\ calls' = BackendCalls(
              << UpdatePictureParameters("PPS", <<"self->vkp", "pps">>,
                   post_increment(pps_update_count).value, ok) >>)
         /\ UNCHANGED <<last_sps, last_vps, sps_update_count>>

\* variant of drop_vps: the VPS case runs to its end
drop_vps_never == FALSE

\* the condition of the return that follows the store of last_vps:
\* if (true)
drop_vps == TRUE

\* case GST_H265_NAL_VPS: an accepted record is stored, and the function
\* returns before fill_vps and the publication, which count with
\* pps_update_count
update_vps(vps, ok) ==
  IF vps_cmp(last_vps, vps)
    THEN /\ calls' = <<>>
         /\ UNCHANGED cache
    ELSE IF drop_vps
      THEN /\ last_vps' = vps
           /\ calls' = <<>>
           /\ UNCHANGED <<last_sps, last_pps, vkp, sps_update_count,
                          pps_update_count>>
      ELSE /\ pps_update_count < MaxUpdates
           /\ last_vps' = vps
           /\ vkp' = fill_vps(vps, vkp)
           /\ pps_update_count' = post_increment(pps_update_count).after
           /\ calls' = BackendCalls(
                << UpdatePictureParameters("VPS", <<"self->vkp", "vps">>,
                     post_increment(pps_update_count).value, ok) >>)
           /\ UNCHANGED <<last_sps, last_pps, sps_update_count>>

\* variant of token_after: the reference is dropped when the backend fails
\* the call
token_after_dropping(token, type, cs) ==
  IF \E i \in 1..Len(cs) : cs[i].updateType = type
    THEN (IF \E i \in 1..Len(cs) : cs[i].updateType = type /\ cs[i].ok
            THEN <<"token", type>> ELSE NULL)
    ELSE token

\* the token member after the calls of an observe: UpdatePictureParameters
\* takes the member by reference, and the backend leaves in it the token of
\* the kind, which it creates at the first call
token_after(token, type, cs) ==
  IF \E i \in 1..Len(cs) : cs[i].updateType = type
    THEN <<"token", type>>
    ELSE token

\* gst_h265_dec_update_picture_parameters (decoder, type, nalu); ok is the
\* result the backend gives if it is called
gst_h265_dec_update_picture_parameters(type, nalu, ok) ==
  /\ pc \notin {"disposed", "crashed"}
  /\ CASE type = "SPS" -> update_sps(nalu, ok)
       [] type = "PPS" -> update_pps(nalu, ok)
       [] type = "VPS" -> update_vps(nalu, ok)
  /\ spsclient' = token_after(spsclient, "SPS", calls')
  /\ ppsclient' = token_after(ppsclient, "PPS", calls')
  /\ vpsclient' = token_after(vpsclient, "VPS", calls')
  /\ op' = [fn |-> "update_picture_parameters", type |-> type, nalu |-> nalu]
  /\ UNCHANGED <<config, session>>

\* token->Release ()
ReleaseToken(token) == [fn |-> "Release", token |-> token]

\* gst_h265_dec_dispose (object), run once when the decoder is torn down, no
\* picture being alive: the SPS and the PPS token are released if set; the
\* members keep their value
gst_h265_dec_dispose ==
  /\ pc = "idle"
  /\ calls' = (IF spsclient # NULL THEN << ReleaseToken(spsclient) >> ELSE <<>>)
                \o (IF ppsclient # NULL THEN << ReleaseToken(ppsclient) >> ELSE <<>>)
  /\ pc' = "disposed"
  /\ op' = [fn |-> "dispose"]
  /\ UNCHANGED <<config, cache, tokens, vkpic>>

----------------------------------------------------------------------------
(* The picture session (struct VkPic) and the bitstream assembler.          *)

\* the lengths of VkParserHevcPictureData.RefPicSetStCurrBefore,
\* RefPicSetStCurrAfter and RefPicSetLtCurr
RefPicSetSize == 8

\* a zeroed VkParserHevcPictureData; C arrays are indexed from 0.  overflow
\* collects the writes <<array, index, value>> made past the end of an index
\* array
ZeroHevc ==
  [pStdVps |-> NULL, pStdSps |-> NULL, pStdPps |-> NULL,
   pVpsClientObject |-> NULL, pSpsClientObject |-> NULL,
   pPpsClientObject |-> NULL,
   pic_parameter_set_id |-> 0, seq_parameter_set_id |-> 0,
   vps_video_parameter_set_id |-> 0,
   IrapPicFlag |-> 0, IdrPicFlag |-> 0,
   NumBitsForShortTermRPSInSlice |-> 0, NumDeltaPocsOfRefRpsIdx |-> 0,
   NumPocTotalCurr |-> 0, NumPocStCurrBefore |-> 0, NumPocStCurrAfter |-> 0,
   NumPocLtCurr |-> 0, CurrPicOrderCntVal |-> 0,
   RefPics |-> [k \in 0..(MaxRefPics - 1) |-> NULL],
   PicOrderCntVal |-> [k \in 0..(MaxRefPics - 1) |-> 0],
   IsLongTerm |-> [k \in 0..(MaxRefPics - 1) |-> 0],
   RefPicSetStCurrBefore |-> [k \in 0..(RefPicSetSize - 1) |-> 0],
   RefPicSetStCurrAfter |-> [k \in 0..(RefPicSetSize - 1) |-> 0],
   RefPicSetLtCurr |-> [k \in 0..(RefPicSetSize - 1) |-> 0],
   overflow |-> {},
   ProfileLevel |-> 0, ColorPrimaries |-> 0, bit_depth_luma_minus8 |-> 0,
   bit_depth_chroma_minus8 |-> 0]

\* a zeroed VkParserPictureData
ZeroPictureData ==
  [PicWidthInMbs |-> 0, FrameHeightInMbs |-> 0, pCurrPic |-> NULL,
   field_pic_flag |-> 0, bottom_field_flag |-> 0, progressive_frame |-> 0,
   top_field_first |-> 0, repeat_first_field |-> 0, ref_pic_flag |-> 0,
   intra_pic_flag |-> 0, chroma_format |-> 0, picture_order_count |-> 0,
   pbSideData |-> NULL, nSideDataLen |-> 0,
   nBitstreamDataLen |-> 0, pBitstreamData |-> NULL,
   nNumSlices |-> 0, pSliceDataOffsets |-> NULL,
   hevc |-> ZeroHevc]

\* variant of vk_pic_new: the offsets array is seeded with the length of a
\* start code
vk_pic_new_seeded_past_start_code(pic) ==
  [pic |-> pic, data |-> ZeroPictureData, bitstream |-> <<>>,
   vkp |-> VkH265Picture, slice_group_map |-> NULL, slice_offsets |-> <<3>>]

\* vk_pic_new: a zeroed session with an empty byte array and the offsets
\* array seeded with one 0
vk_pic_new(pic) ==
  [pic |-> pic, data |-> ZeroPictureData, bitstream |-> <<>>,
   vkp |-> VkH265Picture, slice_group_map |-> NULL, slice_offsets |-> <<0>>]

\* variant of nal: the four-byte start code
nal_four_bytes == <<0, 0, 0, 1>>

\* the start code put in front of every slice: nal[] = { 0, 0, 1 }
nal == <<0, 0, 1>>

start_code_size == Len(nal)

\* the handle AllocPictureBuffer gives to the current picture
CurrPicHandle == <<"pic", 0>>

\* variant of append_slice: the offset leaves out the start code
append_slice_without_start_code(pic, payload) ==
  LET offset == pic.slice_offsets[Len(pic.slice_offsets)] + Len(payload)
  IN  [pic EXCEPT !.data.nNumSlices = @ + 1,
                  !.bitstream = (@ \o nal) \o payload,
                  !.slice_offsets = Append(@, offset)]

\* variant of append_slice: the offset is the length of the slice alone
append_slice_not_cumulative(pic, payload) ==
  LET offset == Len(payload) + start_code_size
  IN  [pic EXCEPT !.data.nNumSlices = @ + 1,
                  !.bitstream = (@ \o nal) \o payload,
                  !.slice_offsets = Append(@, offset)]

\* the session after the body of gst_h265_dec_decode_slice; payload is the
\* bytes slice->nalu.data + slice->nalu.offset, of length slice->nalu.size
append_slice(pic, payload) ==
  LET offset == pic.slice_offsets[Len(pic.slice_offsets)] + Len(payload)
                  + start_code_size
  IN  [pic EXCEPT !.data.nNumSlices = @ + 1,
                  !.bitstream = (@ \o nal) \o payload,
                  !.slice_offsets = Append(@, offset)]

\* gst_h265_dec_decode_slice (decoder, picture, slice, ...)
gst_h265_dec_decode_slice(payload) ==
  /\ pc = "started"
  /\ vkpic[1].data.nNumSlices < MaxSlices
  /\ vkpic' = << append_slice(vkpic[1], payload) >>
  /\ calls' = <<>>
  /\ op' = [fn |-> "decode_slice", nalu |-> payload, ret |-> "OK"]
  /\ UNCHANGED <<config, cache, tokens, pc>>

\* client->AllocPictureBuffer (&pic)
AllocPictureBuffer(pic, ok) == [fn |-> "AllocPictureBuffer", pic |-> pic, ok |-> ok]

\* variant of gst_h265_dec_new_picture: the session is made and attached
\* whatever AllocPictureBuffer returns
gst_h265_dec_new_picture_always_attaches(ok) ==
  /\ pc = "idle"
  /\ calls' = BackendCalls(<< AllocPictureBuffer(CurrPicHandle, ok) >>)
  /\ vkpic' = << vk_pic_new(IF client /\ ok THEN CurrPicHandle ELSE NULL) >>
  /\ pc' = "new"
  /\ op' = [fn |-> "new_picture", ret |-> IF client /\ ~ok THEN "ERROR" ELSE "OK"]
  /\ UNCHANGED <<config, cache, tokens>>

\* gst_h265_dec_new_picture (decoder, frame, picture); ok is the result of
\* AllocPictureBuffer if it is called
gst_h265_dec_new_picture(ok) ==
  /\ pc = "idle"
  /\ calls' = BackendCalls(<< AllocPictureBuffer(CurrPicHandle, ok) >>)
  /\ IF client /\ ~ok
       THEN /\ op' = [fn |-> "new_picture", ret |-> "ERROR"]
            /\ UNCHANGED session
       ELSE /\ vkpic' = << vk_pic_new(IF client THEN CurrPicHandle ELSE NULL) >>
            /\ pc' = "new"
            /\ op' = [fn |-> "new_picture", ret |-> "OK"]
  /\ UNCHANGED <<config, cache, tokens>>

\* variant of steal: the content is handed out and the array keeps it
steal_keeps(array) == [left |-> array, taken |-> array]

\* what g_byte_array_steal / g_array_steal leave in the array and hand out:
\* the array is empty afterwards
steal(array) == [left |-> <<>>, taken |-> array]

\* g_free (vkpic->data.pBitstreamData); g_free (slice_offsets): the pointers
\* freed before the return, in order
end_picture_frees(data, slice_offsets) == << data.pBitstreamData, slice_offsets >>

\* client->DecodePicture (&vkpic->data): the descriptor with the buffers its
\* pointers refer to at the time of the call
DecodePicture(data, bitstream, offsets, ok) ==
  [fn |-> "DecodePicture", data |-> data, pBitstreamData |-> bitstream,
   pSliceDataOffsets |-> offsets, ok |-> ok]

\* gst_h265_dec_end_picture (decoder, picture); ok is the result of
\* DecodePicture if it is called.  The stolen buffers are freed before the
\* return, so the session's two pointers dangle afterwards.
gst_h265_dec_end_picture(ok) ==
  LET bytes == steal(vkpic[1].bitstream)
      offs  == steal(vkpic[1].slice_offsets)
      data  == [vkpic[1].data EXCEPT
                  !.pBitstreamData = <<"stolen bitstream">>,
                  !.nBitstreamDataLen = Len(bytes.taken),
                  !.pSliceDataOffsets = <<"stolen slice_offsets">>,
                  !.ref_pic_flag = 1]
      ret   == IF client /\ ~ok THEN "ERROR" ELSE "OK"
  IN
  /\ pc = "started"
  /\ vkpic' = << [vkpic[1] EXCEPT !.bitstream = bytes.left,
                                  !.slice_offsets = offs.left,
                                  !.data = data] >>
  /\ calls' = BackendCalls(<< DecodePicture(data, bytes.taken, offs.taken, ok) >>)
  /\ pc' = IF ret = "OK" THEN "ended" ELSE "failed"
  /\ op' = [fn |-> "end_picture", ret |-> ret,
            freed |-> end_picture_frees(data, <<"stolen slice_offsets">>)]
  /\ UNCHANGED <<config, cache, tokens>>

----------------------------------------------------------------------------
(* start_picture: the picture descriptor and the reference-set resolution.  *)

\* GST_H265_IS_NAL_TYPE_IRAP / GST_H265_IS_NAL_TYPE_IDR
IsIrap(nal_type) == IF nal_type >= 16 /\ nal_type <= 23 THEN 1 ELSE 0

IsIdr(nal_type) == IF nal_type = 19 \/ nal_type = 20 THEN 1 ELSE 0

\* the compound literal assigned to vkpic->data; the members it does not name
\* (the bitstream members, nNumSlices, the codec-specific part) are zero
picture_data_literal(pic, picture, sps) ==
  [ZeroPictureData EXCEPT
     !.PicWidthInMbs = sps.width \div 16,
     !.FrameHeightInMbs = sps.height \div 16,
     !.pCurrPic = pic,
     !.field_pic_flag = IF sps.vui_parameters_present_flag # 0
                          THEN sps.vui_params.field_seq_flag ELSE 0,
     !.bottom_field_flag = picture.buffer_flags.bottom_field,
     !.progressive_frame = 1 - picture.buffer_flags.interlaced,
     !.top_field_first = picture.buffer_flags.tff,
     !.repeat_first_field = 0,
     !.ref_pic_flag = picture.ref,
     !.intra_pic_flag = picture.IntraPicFlag,
     !.chroma_format = sps.chroma_format_idc,
     !.picture_order_count = picture.pic_order_cnt]

\* the compound literal assigned to *h265; holder names the VkH265Picture the
\* descriptor pointers point into ("self" or "vkpic")
hevc_literal(holder, picture, slice, rps) ==
  LET pps == slice.pps
      sps == slice.sps
      vps == slice.vps
  IN
  [ZeroHevc EXCEPT
     !.pStdVps = <<holder, "vps">>,
     !.pVpsClientObject = vpsclient,
     !.pStdSps = <<holder, "sps">>,
     !.pSpsClientObject = spsclient,
     !.pStdPps = <<holder, "pps">>,
     !.pPpsClientObject = ppsclient,
     !.pic_parameter_set_id = U8(pps.id),
     !.seq_parameter_set_id = U8(sps.id),
     !.vps_video_parameter_set_id = U8(vps.id),
     !.IrapPicFlag = IsIrap(slice.nal_type),
     !.IdrPicFlag = IsIdr(slice.nal_type),
     !.NumBitsForShortTermRPSInSlice = slice.short_term_ref_pic_set_size,
     !.NumDeltaPocsOfRefRpsIdx = slice.NumDeltaPocsOfRefRpsIdx,
     !.NumPocTotalCurr = slice.NumPocTotalCurr,
     !.NumPocStCurrBefore = rps.before.count,
     !.NumPocStCurrAfter = rps.after.count,
     !.NumPocLtCurr = rps.lt.count,
     !.CurrPicOrderCntVal = picture.pic_order_cnt,
     !.ProfileLevel = vps.profile_tier_level.profile_idc,
     !.ColorPrimaries = IF sps.vui_parameters_present_flag # 0
                          THEN sps.vui_params.colour_primaries ELSE 0,
     !.bit_depth_luma_minus8 =
        IF pps.pps_scc_extension_flag # 0
          THEN pps.pps_scc_extension_params.luma_bit_depth_entry_minus8 ELSE 0,
     !.bit_depth_chroma_minus8 =
        IF pps.pps_scc_extension_flag # 0
          THEN U8(pps.pps_scc_extension_params.chroma_bit_depth_entry_minus8)
          ELSE 0]

\* variant of ReferencePictures: every picture of the DPB
ReferencePictures_unfiltered(dpb_array) == dpb_array

\* the pictures of the DPB marked as reference, in scan order
ReferencePictures(dpb_array) == SelectSeq(dpb_array, LAMBDA other : other.ref # 0)

\* variant of table_full: the table counts as full one slot early
table_full_one_early(num_ref_pic) == num_ref_pic >= MaxRefPics - 1

\* the check made before a slot is written:
\* num_ref_pic >= G_N_ELEMENTS (h265->RefPics)
table_full(num_ref_pic) == num_ref_pic >= MaxRefPics

\* the three assignments to slot k of the table; a write past the end of the
\* three arrays is collected in overflow
write_slot(h265, k, other) ==
  IF k < MaxRefPics
    THEN [h265 EXCEPT !.RefPics[k] = other.frame.pic,
                      !.PicOrderCntVal[k] = other.pic_order_cnt,
                      !.IsLongTerm[k] = other.long_term]
    ELSE [h265 EXCEPT !.overflow = @ \cup {<<"RefPics", k, other.frame.pic>>}]

\* the first loop from the reference picture Head(refs) on, num_ref_pic slots
\* being written: the descriptor, the number of slots and the result when
\* the loop ends or returns
RECURSIVE scan_references(_, _, _)
scan_references(h265, refs, num_ref_pic) ==
  IF refs = <<>>
    THEN [h265 |-> h265, num_ref_pic |-> num_ref_pic, ret |-> "OK"]
    ELSE IF table_full(num_ref_pic)
      THEN [h265 |-> h265, num_ref_pic |-> num_ref_pic, ret |-> "ERROR"]
      ELSE scan_references(write_slot(h265, num_ref_pic, Head(refs)),
                           Tail(refs), num_ref_pic + 1)

\* the first loop: the reference pictures, in scan order, fill RefPics,
\* PicOrderCntVal and IsLongTerm from slot 0; the loop stops at the first
\* reference picture met when num_ref_pic has reached the table size
fill_ref_table(h265, dpb_array) ==
  scan_references(h265, ReferencePictures(dpb_array), 0).h265

\* array[i] = k on an index array of RefPicSetSize entries
write_index(h265, array, i, k) ==
  IF i < RefPicSetSize
    THEN [h265 EXCEPT ![array][i] = k]
    ELSE [h265 EXCEPT !.overflow = @ \cup {<<array, i, k>>}]

\* variant of NonNullFrom: the scan runs to the end of the list's storage
NonNullFrom_past_count(list, j) ==
  { x \in j..(Len(list.pictures) - 1) : list.pictures[x + 1] # NULL }

\* the positions j..count-1 of a classification list that hold a picture
NonNullFrom(list, j) ==
  { x \in j..(list.count - 1) : list.pictures[x + 1] # NULL }

Min(S) == CHOOSE x \in S : \A y \in S : x <= y

\* variant of slots_with_poc: when no slot carries the POC, the last slot
\* written stands in
slots_with_poc_or_last(h265, num_ref_pic, poc) ==
  LET hits == { k \in 0..(num_ref_pic - 1) : h265.PicOrderCntVal[k] = poc }
  IN  IF hits = {} THEN {num_ref_pic - 1} ELSE hits

\* the k loop: the slots below num_ref_pic whose POC is that of the entry;
\* the loop breaks at the least of them
slots_with_poc(h265, num_ref_pic, poc) ==
  { k \in 0..(num_ref_pic - 1) : h265.PicOrderCntVal[k] = poc }

\* one of the three index loops, from output position i and list position j.
\* Once the while loop finds no picture in the rest of the list, it finds
\* none in any later iteration either, and the iterations left write nothing
RECURSIVE resolve_indices(_, _, _, _, _, _)
resolve_indices(h265, array, list, num_ref_pic, i, j) ==
  IF i >= num_ref_pic \/ NonNullFrom(list, j) = {}
    THEN h265
    ELSE
      LET other == Min(NonNullFrom(list, j))
          hits  == slots_with_poc(h265, num_ref_pic,
                                  list.pictures[other + 1][1].pic_order_cnt)
          h     == IF hits = {} THEN h265
                   ELSE write_index(h265, array, i, Min(hits))
      IN  resolve_indices(h, array, list, num_ref_pic, i + 1, other + 1)

\* variant of per_picture_descriptors: the descriptors are derived for the
\* picture when oob_pic_params is set
per_picture_descriptors_when_oob == oob_pic_params

\* the condition under which start_picture derives the descriptors into the
\* session instead of pointing at self->vkp; it reads sps_update_count twice
per_picture_descriptors ==
  (~oob_pic_params) \/ (sps_update_count = 0 /\ sps_update_count = 0)

\* the session after gst_h265_dec_start_picture and the value it returns
start_picture_result(pic, picture, slice, dpb_array, rps) ==
  LET own    == per_picture_descriptors
      filled == IF own THEN fill_pps(slice.pps, fill_sps(slice.sps, pic.vkp))
                ELSE pic.vkp
      data0  == picture_data_literal(pic.pic, picture, slice.sps)
      h0     == hevc_literal(IF own THEN "vkpic" ELSE "self", picture, slice, rps)
      scan   == scan_references(h0, ReferencePictures(dpb_array), 0)
      h1     == fill_ref_table(h0, dpb_array)
      num_ref_pic == scan.num_ref_pic
      h2     == resolve_indices(h1, "RefPicSetStCurrBefore", rps.before,
                                num_ref_pic, 0, 0)
      h3     == resolve_indices(h2, "RefPicSetStCurrAfter", rps.after,
                                num_ref_pic, 0, 0)
      h4     == resolve_indices(h3, "RefPicSetLtCurr", rps.lt, num_ref_pic, 0, 0)
  IN  IF scan.ret = "ERROR"
        THEN [ret |-> "ERROR",
              pic |-> [pic EXCEPT !.vkp = filled, !.data = [data0 EXCEPT !.hevc = h1]]]
        ELSE [ret |-> "OK",
              pic |-> [pic EXCEPT !.vkp = filled, !.data = [data0 EXCEPT !.hevc = h4]]]

\* the sessions of the DPB pictures are those new_picture made for them:
\* without a client their handle is NULL
dpb_sessions(dpb_array) ==
  [p \in 1..Len(dpb_array) |->
     [dpb_array[p] EXCEPT !.frame.pic = IF client THEN @ ELSE NULL]]

\* the number of g_array_unref (dpb_array) made before start_picture returns
\* ret: the one call follows the first loop, and the return on a full table
\* leaves the function from inside the loop
dpb_array_unrefs(ret) == IF ret = "ERROR" THEN 0 ELSE 1

\* variant of gst_h265_dec_start_picture: the descriptors of the picture's
\* parameter sets are derived into self->vkp as well
gst_h265_dec_start_picture_filling_shared(picture, slice, dpb_array, rps) ==
  LET r == start_picture_result(vkpic[1], picture, slice,
                                dpb_sessions(dpb_array), rps) IN
  /\ pc = "new"
  /\ vkpic' = << r.pic >>
  /\ pc' = IF r.ret = "OK" THEN "started" ELSE "failed"
  /\ calls' = <<>>
  /\ op' = [fn |-> "start_picture", picture |-> picture, slice |-> slice,
            dpb |-> dpb_sessions(dpb_array), rps |-> rps, ret |-> r.ret,
            unrefs |-> dpb_array_unrefs(r.ret)]
  /\ vkp' = fill_pps(slice.pps, fill_sps(slice.sps, vkp))
  /\ UNCHANGED <<config, last_sps, last_pps, last_vps, sps_update_count,
                 pps_update_count, tokens>>

\* gst_h265_dec_start_picture (decoder, picture, slice, dpb); dpb_array is what
\* gst_h265_dpb_get_pictures_all (dpb) returns
gst_h265_dec_start_picture(picture, slice, dpb_array, rps) ==
  LET r == start_picture_result(vkpic[1], picture, slice,
                                dpb_sessions(dpb_array), rps) IN
  /\ pc = "new"
  /\ vkpic' = << r.pic >>
  /\ pc' = IF r.ret = "OK" THEN "started" ELSE "failed"
  /\ calls' = <<>>
  /\ op' = [fn |-> "start_picture", picture |-> picture, slice |-> slice,
            dpb |-> dpb_sessions(dpb_array), rps |-> rps, ret |-> r.ret,
            unrefs |-> dpb_array_unrefs(r.ret)]
  /\ UNCHANGED <<config, cache, tokens>>

\* client->DisplayPicture (vkpic->pic, timestamp)
DisplayPicture(pic, ok) == [fn |-> "DisplayPicture", pic |-> pic, ok |-> ok]

\* vkpic->pic->Release () in vk_pic_free, made whether or not there is a
\* client (without one the handle is NULL)
Release(pic) == [fn |-> "Release", pic |-> pic]

\* where the decoder stands after vk_pic_free: the call of a method through
\* a NULL handle is undefined, the process may go on or stop there
after_release(pic) == IF pic = NULL THEN {"idle", "crashed"} ELSE {"idle"}

\* variant of output_picture_steps: the frame is finished on the failure
\* path as well
output_picture_steps_finishing_always(failed) ==
  << "gst_h265_picture_unref", "gst_video_decoder_finish_frame" >>

\* the calls output_picture makes on the picture and the frame after the
\* DisplayPicture step, in order: the failure path drops the reference and
\* returns, the other path drops it and finishes the frame
output_picture_steps(failed) ==
  IF failed
    THEN << "gst_h265_picture_unref" >>
    ELSE << "gst_h265_picture_unref", "gst_video_decoder_finish_frame" >>

\* gst_h265_dec_output_picture (decoder, frame, picture); ok is the result of
\* DisplayPicture if it is called; last tells whether the reference dropped
\* by gst_h265_picture_unref is the last one, in which case vk_pic_free runs
gst_h265_dec_output_picture(ok, last) ==
  LET ret == IF client /\ ~ok THEN "ERROR" ELSE "OK" IN
  /\ pc = "ended"
  /\ calls' = BackendCalls(<< DisplayPicture(vkpic[1].pic, ok) >>)
                \o (IF last THEN << Release(vkpic[1].pic) >> ELSE <<>>)
  /\ IF last
       THEN vkpic' = NULL /\ pc' \in after_release(vkpic[1].pic)
       ELSE vkpic' = vkpic /\ pc' = "output"
  /\ op' = [fn |-> "output_picture", ret |-> ret,
            steps |-> output_picture_steps(client /\ ~ok)]
  /\ UNCHANGED <<config, cache, tokens>>

\* vk_pic_free, run when the last reference to the picture goes away: after a
\* failed start_picture or end_picture, or after the DPB lets go of a picture
\* that was output
vk_pic_free ==
  /\ pc \in {"failed", "output"}
  /\ calls' = << Release(vkpic[1].pic) >>
  /\ vkpic' = NULL
  /\ pc' \in after_release(vkpic[1].pic)
  /\ op' = [fn |-> "vk_pic_free"]
  /\ UNCHANGED <<config, cache, tokens>>

----------------------------------------------------------------------------
(* Inputs of the picture operations.                                        *)

\* pictures of a DPB snapshot
MaxDpb == 5

\* a GstH265Picture about to be decoded
MkPicture(ref, poc) ==
  [ref |-> ref, pic_order_cnt |-> poc, IntraPicFlag |-> 0, long_term |-> 0,
   buffer_flags |-> [bottom_field |-> 0, interlaced |-> 0, tff |-> 0]]

PictureInputs == { MkPicture(0, 40), MkPicture(1, 40) }

\* the first slice of a picture with the parameter sets it refers to:
\* slice->header.pps, pps->sps, sps->vps
MkSlice(pps, sps, vps, nal_type) ==
  [pps |-> pps, sps |-> [sps EXCEPT !.vps = <<vps>>], vps |-> vps,
   nal_type |-> nal_type, short_term_ref_pic_set_size |-> 0,
   NumDeltaPocsOfRefRpsIdx |-> 0, NumPocTotalCurr |-> 0]

SliceInputs ==
  { MkSlice(MkPps(0, 0, 70000), MkSps(0, <<1, 5>>, <<0, 0, 0>>, NULL), MkVps(0, 0), 1),
    MkSlice(MkPps(1, 3, 0), MkSps(1, <<0, 0>>, <<1, 1, 0>>, NULL), MkVps(1, 0), 19) }

\* the DPB picture at scan position p: kind is <<ref, long_term>>; every DPB
\* picture went through new_picture and has its own session and handle
DpbPicture(p, kind, poc) ==
  [ref |-> kind[1], long_term |-> kind[2], pic_order_cnt |-> poc,
   frame |-> [pic |-> <<"pic", p>>]]

\* not a reference, short-term reference, long-term reference
DpbKinds == { <<0, 0>>, <<1, 0>>, <<1, 1>> }

\* every DPB of at most n pictures, the picture at position p having POC 10 p
DpbUpTo(n) ==
  UNION { { [p \in 1..len |-> DpbPicture(p, kinds[p], 10 * p)] :
              kinds \in [1..len -> DpbKinds] } : len \in 0..n }

\* a DPB of n short-term reference pictures
DpbOfReferences(n) == [p \in 1..n |-> DpbPicture(p, <<1, 0>>, 10 * p)]

\* a classification list (decoder->RefPicSetStCurrBefore and its
\* NumPocStCurrBefore, ...): pocs holds the POC of each entry, -1 for a NULL
\* entry
MkList(pocs, count) ==
  [pictures |-> [x \in 1..Len(pocs) |->
                   IF pocs[x] = -1 THEN NULL
                   ELSE << [pic_order_cnt |-> pocs[x]] >>],
   count |-> count]

EmptyList == MkList(<<>>, 0)

MkRps(before, after, lt) == [before |-> before, after |-> after, lt |-> lt]

\* entries of one classification list explored
MaxList == 2

\* the POCs of list entries: no picture, POCs that DPB pictures have, and one
\* that none has
ListPocs == {-1, 10, 20, 99}

\* every classification list of at most n entries, with every count up to
\* the number of entries
ListsUpTo(n) ==
  UNION { { MkList(pocs, count) : pocs \in [1..len -> ListPocs], count \in 0..len } :
          len \in 0..n }

\* the classification inputs with one list of at most n entries and the
\* other two empty, and the input with the three lists of OneRps
RpsUpTo(n) ==
  { MkRps(l, EmptyList, EmptyList) : l \in ListsUpTo(n) }
    \cup { MkRps(EmptyList, l, EmptyList) : l \in ListsUpTo(n) }
    \cup { MkRps(EmptyList, EmptyList, l) : l \in ListsUpTo(n) }
    \cup { MkRps(MkList(<<-1, 20, -1>>, 3), MkList(<<30>>, 1), MkList(<<10, 99>>, 2)) }

\* DPB snapshots for the classification: empty, three references of POC 10,
\* 20, 30, and two references of one POC around a picture that is none
DpbForLists ==
  { <<>>,
    DpbOfReferences(3),
    << DpbPicture(1, <<1, 0>>, 20), DpbPicture(2, <<0, 0>>, 10),
       DpbPicture(3, <<1, 1>>, 20) >> }

\* a few classification inputs
RpsFew ==
  { MkRps(EmptyList, EmptyList, EmptyList),
    MkRps(MkList(<<-1, 20, -1>>, 3), MkList(<<30>>, 1), MkList(<<10, 99>>, 2)) }

\* a few DPB snapshots
DpbFew ==
  { <<>>,
    << DpbPicture(1, <<1, 1>>, 10), DpbPicture(2, <<0, 0>>, 15),
       DpbPicture(3, <<1, 0>>, 20), DpbPicture(4, <<1, 0>>, 30) >> }

\* the byte values of slice payloads
Bytes == {0, 255}

\* every payload of at most n bytes
PayloadsUpTo(n) == UNION { [1..len -> Bytes] : len \in 0..n }

\* payloads of 5 and of 7 bytes
Payload5 == <<255, 0, 0, 1, 255>>

Payload7 == <<0, 0, 1, 255, 0, 255, 0>>

PayloadFew == { <<255>> }

\* the inputs of one picture when the picture operations are not what is
\* explored
OnePicture == MkPicture(1, 40)

OneSlice ==
  MkSlice(MkPps(0, 0, 0), MkSps(0, <<0, 0>>, <<0, 0, 0>>, NULL), MkVps(0, 0), 1)

OneDpb ==
  << DpbPicture(1, <<1, 1>>, 10), DpbPicture(2, <<0, 0>>, 15),
     DpbPicture(3, <<1, 0>>, 20) >>

OneRps == MkRps(MkList(<<-1, 20, -1>>, 3), MkList(<<30>>, 1), MkList(<<10, 99>>, 2))

----------------------------------------------------------------------------
(* Specifications.  They differ in the operations they run and in which     *)
(* inputs are drawn from the large sets.                                    *)

\* the parser delivers a parameter-set NAL unit
ParameterStep(Spss, Ppss, Vpss) ==
  \/ \E sps \in Spss, ok \in BOOLEAN :
       gst_h265_dec_update_picture_parameters("SPS", sps, ok)
  \/ \E pps \in Ppss, ok \in BOOLEAN :
       gst_h265_dec_update_picture_parameters("PPS", pps, ok)
  \/ \E vps \in Vpss, ok \in BOOLEAN :
       gst_h265_dec_update_picture_parameters("VPS", vps, ok)

\* the driver moves the current picture through its lifecycle
PictureStep(Pictures, Slices, Dpbs, Rpss, Payloads) ==
  \/ \E ok \in BOOLEAN : gst_h265_dec_new_picture(ok)
  \/ \E picture \in Pictures, slice \in Slices, dpb_array \in Dpbs, rps \in Rpss :
       gst_h265_dec_start_picture(picture, slice, dpb_array, rps)
  \/ \E payload \in Payloads : gst_h265_dec_decode_slice(payload)
  \/ \E ok \in BOOLEAN : gst_h265_dec_end_picture(ok)
  \/ \E ok \in BOOLEAN, last \in BOOLEAN : gst_h265_dec_output_picture(ok, last)
  \/ vk_pic_free

\* parameter sets for the specification of all operations: two of each kind
\* that the compare functions tell apart
SpsFew ==
  { MkSps(0, <<1, 5>>, <<0, 0, 0>>, NULL), MkSps(1, <<0, 0>>, <<0, 0, 0>>, NULL) }

PpsFew == { MkPps(0, 0, 0), MkPps(1, 3, 0) }

VpsFew == { MkVps(0, 0), MkVps(1, 0) }

\* every operation, in any interleaving
Next ==
  \/ ParameterStep(SpsFew, PpsFew, VpsFew)
  \/ PictureStep({OnePicture}, {OneSlice}, {OneDpb}, {OneRps}, PayloadFew)

Spec == Init /\ [][Next]_vars

\* parsed records that hold zero in every member but valid, which the parser
\* sets in each record it delivers
BareSps == [ZeroSPS EXCEPT !.valid = 1]

BarePps == [ZeroPPS EXCEPT !.valid = 1]

\* the parameter cache under records that differ from the zeroed cache in
\* valid alone, and records that differ in more
NextFirst ==
  ParameterStep({BareSps} \cup SpsFew, {BarePps} \cup PpsFew, VpsFew)

SpecFirst == Init /\ [][NextFirst]_vars

\* the parameter cache alone, under every parameter-set input
NextCache == ParameterStep(SpsInputs, PpsInputs, VpsInputs)

SpecCache == Init /\ [][NextCache]_vars

\* the picture lifecycle under every slice payload
NextAsm ==
  PictureStep({OnePicture}, {OneSlice}, {OneDpb}, {OneRps},
              PayloadsUpTo(MaxPayload) \cup {Payload5, Payload7})

SpecAsm == Init /\ [][NextAsm]_vars

\* the picture lifecycle under every DPB snapshot of at most MaxDpb pictures,
\* a DPB that fills the reference table and one that exceeds it
NextRef ==
  PictureStep(PictureInputs, {OneSlice},
              DpbUpTo(MaxDpb) \cup { DpbOfReferences(MaxRefPics),
                                     DpbOfReferences(MaxRefPics + 1) },
              RpsFew, PayloadFew)

SpecRef == Init /\ [][NextRef]_vars

\* the picture lifecycle under every classification list of at most MaxList
\* entries
NextLists ==
  PictureStep({OnePicture}, {OneSlice}, DpbForLists, RpsUpTo(MaxList), PayloadFew)

SpecLists == Init /\ [][NextLists]_vars

\* a classification list of n pictures whose POCs are those of
\* DpbOfReferences(n)
ListOfReferences(n) == MkList([x \in 1..n |-> 10 * x], n)

\* classification inputs whose before list fills an index array, and exceeds
\* it by one entry
RpsLong ==
  { MkRps(ListOfReferences(RefPicSetSize), EmptyList, EmptyList),
    MkRps(ListOfReferences(RefPicSetSize + 1), EmptyList,
          MkList(<<10, 99>>, 2)) }

\* the picture lifecycle under DPBs and classification lists that reach the
\* end of the index arrays
NextLong ==
  PictureStep(PictureInputs, {OneSlice},
              { OneDpb, DpbOfReferences(RefPicSetSize),
                DpbOfReferences(RefPicSetSize + 1), DpbOfReferences(MaxRefPics) },
              RpsFew \cup RpsLong, PayloadFew)

SpecLong == Init /\ [][NextLong]_vars

\* the conversions under records whose guarded sub-structures are filled
NextConv == ParameterStep(SpsGuarded, PpsGuarded, VpsFew)

SpecConv == Init /\ [][NextConv]_vars

\* the life of the decoder: every operation under few inputs, and the
\* teardown
NextLife ==
  \/ ParameterStep(SpsFew, {MkPps(0, 0, 0)}, {MkVps(0, 0)})
  \/ PictureStep({OnePicture}, {OneSlice}, {<<>>}, {OneRps}, {<<>>})
  \/ gst_h265_dec_dispose

SpecLife == Init /\ [][NextLife]_vars

\* the parameter cache next to pictures whose DPB fits the reference table
\* and pictures whose DPB exceeds it
NextFrame ==
  \/ ParameterStep(SpsFew, {MkPps(0, 0, 0)}, {MkVps(0, 0)})
  \/ PictureStep({OnePicture}, {OneSlice},
                 {OneDpb, DpbOfReferences(MaxRefPics), DpbOfReferences(MaxRefPics + 1)},
                 {OneRps}, {<<>>})

SpecFrame == Init /\ [][NextFrame]_vars

----------------------------------------------------------------------------
(* Properties of the parameter change cache.                                *)

\* the step is gst_h265_dec_update_picture_parameters on a record of the kind
Observes(type) == op'.fn = "update_picture_parameters" /\ op'.type = type

\* the last operation was gst_h265_dec_update_picture_parameters on the kind
Observed(type) == op.fn = "update_picture_parameters" /\ op.type = type

\* the call an accepted change makes when there is a client
Publication(type, count, cs) ==
  /\ Len(cs) = 1
  /\ cs[1].fn = "UpdatePictureParameters"
  /\ cs[1].updateType = type
  /\ cs[1].desc = <<"self->vkp", IF type = "SPS" THEN "sps" ELSE "pps">>
  /\ cs[1].updateSequenceCount = count

\* C1: an observe of an SPS or PPS record that sps_cmp / pps_cmp finds equal
\* to the cached one makes no backend call and leaves the cached records,
\* the shared descriptors and the update counters as they were
C1_EqualObserveIsSilent ==
  [][ /\ (Observes("SPS") /\ sps_cmp(last_sps, op'.nalu))
         => (calls' = <<>> /\ UNCHANGED cache)
      /\ (Observes("PPS") /\ pps_cmp(last_pps, op'.nalu))
         => (calls' = <<>> /\ UNCHANGED cache) ]_vars

\* with a client, an SPS that is not the cached record but equal to it on the
\* compared members was observed after one accepted change, and no call made
C1_Witness ==
  /\ client
  /\ Observed("SPS")
  /\ op.nalu # last_sps
  /\ sps_cmp(last_sps, op.nalu)
  /\ sps_update_count = 1
  /\ calls = <<>>

\* C2 as stated, for the three kinds: when two different records of a kind
\* are observed one after the other, the second observe publishes, and (for
\* the kinds that have a counter) increments the counter by one
C2_AnyDifferencePublishes ==
  [][ \A type \in {"VPS", "SPS", "PPS"} :
        (Observed(type) /\ Observes(type) /\ op'.nalu # op.nalu)
          => /\ Len(calls') = 1
             /\ calls'[1].updateType = type
             /\ (type = "SPS" => sps_update_count' = sps_update_count + 1)
             /\ (type = "PPS" => pps_update_count' = pps_update_count + 1) ]_vars

\* C2, amended: when two SPS (two PPS) that differ on a member sps_cmp
\* (pps_cmp) compares are observed one after the other, the second observe
\* stores the record, converts it into the shared descriptor, increments the
\* kind's counter by one and, if there is a client, makes one
\* UpdatePictureParameters call of that kind that points to the descriptor
C2_ComparedDifferencePublishes ==
  [][ /\ (Observed("SPS") /\ Observes("SPS") /\ ~sps_cmp(op.nalu, op'.nalu))
         => /\ last_sps' = op'.nalu
            /\ vkp' = fill_sps(op'.nalu, vkp)
            /\ sps_update_count' = sps_update_count + 1
            /\ IF client
                 THEN Publication("SPS", sps_update_count, calls')
                 ELSE calls' = <<>>
      /\ (Observed("PPS") /\ Observes("PPS") /\ ~pps_cmp(op.nalu, op'.nalu))
         => /\ last_pps' = op'.nalu
            /\ vkp' = fill_pps(op'.nalu, vkp)
            /\ pps_update_count' = pps_update_count + 1
            /\ IF client
                 THEN Publication("PPS", pps_update_count, calls')
                 ELSE calls' = <<>> ]_vars

\* the second accepted PPS has been published
C2_Witness ==
  /\ client
  /\ Observed("PPS")
  /\ last_pps = op.nalu
  /\ pps_update_count = 2
  /\ Publication("PPS", 1, calls)

\* C3: no operation makes an UpdatePictureParameters call of VPS type
C3_NoVpsPublication ==
  \A i \in 1..Len(calls) :
    calls[i].fn = "UpdatePictureParameters" => calls[i].updateType # "VPS"

\* with a client, a VPS that differs from the cached one was observed and
\* stored
C3_Witness ==
  /\ client
  /\ Observed("VPS")
  /\ last_vps = op.nalu
  /\ last_vps.id = 1
  /\ calls = <<>>

FailedPublication(type) ==
  Observed(type) /\ calls # <<>> /\ ~calls[1].ok

\* C5: when the backend fails the call of an accepted SPS or PPS change, the
\* record is cached and the counter incremented all the same, the call is
\* made once, and an observe of the same record that follows makes no call
C5_FailedPublicationIsCommitted ==
  [][ /\ (Observes("SPS") /\ calls' # <<>> /\ ~calls'[1].ok)
         => /\ last_sps' = op'.nalu
            /\ sps_update_count' = sps_update_count + 1
            /\ Publication("SPS", sps_update_count, calls')
      /\ (Observes("PPS") /\ calls' # <<>> /\ ~calls'[1].ok)
         => /\ last_pps' = op'.nalu
            /\ pps_update_count' = pps_update_count + 1
            /\ Publication("PPS", pps_update_count, calls')
      /\ \A type \in {"SPS", "PPS"} :
           (FailedPublication(type) /\ Observes(type) /\ op'.nalu = op.nalu)
             => (calls' = <<>> /\ UNCHANGED cache) ]_vars

\* the backend failed the call of the second accepted SPS
C5_Witness ==
  /\ FailedPublication("SPS")
  /\ last_sps = op.nalu
  /\ sps_update_count = 2

----------------------------------------------------------------------------
(* Properties of the bitstream assembler.                                   *)

\* the last operation made one DecodePicture call
Submitted ==
  op.fn = "end_picture" /\ Len(calls) = 1 /\ calls[1].fn = "DecodePicture"

\* offsets starts with 0, never decreases and has one entry more than count
WellFormedOffsets(offsets, count) ==
  /\ Len(offsets) = count + 1
  /\ offsets[1] = 0
  /\ \A i \in 1..(Len(offsets) - 1) : offsets[i] <= offsets[i + 1]

\* C6: end_picture right after new_picture and start_picture, with no
\* decode_slice, fills the descriptor with slice count 0 and length 0 and,
\* with a client, submits it with the offsets <<0>> and an empty buffer
C6_NoSliceSubmission ==
  [][ (op.fn = "start_picture" /\ op'.fn = "end_picture")
        => /\ vkpic'[1].data.nNumSlices = 0
           /\ vkpic'[1].data.nBitstreamDataLen = 0
           /\ client => /\ Len(calls') = 1
                        /\ calls'[1].fn = "DecodePicture"
                        /\ calls'[1].data = vkpic'[1].data
                        /\ calls'[1].pSliceDataOffsets = <<0>>
                        /\ calls'[1].pBitstreamData = <<>> ]_vars

\* a picture without slices has been submitted
C6_Witness ==
  /\ Submitted
  /\ calls[1].data.nNumSlices = 0
  /\ calls[1].pSliceDataOffsets = <<0>>
  /\ calls[1].pBitstreamData = <<>>

\* C7: a session begins with the offsets <<0>> and the count 0, start_picture
\* keeps both, and every decode_slice appends the last offset plus the
\* payload length plus 3 and adds one to the count; so after payloads of
\* lengths l1..ln the offsets are 0, l1+3, ..., l1+..+ln+3n and the count is n
C7_OffsetsArePrefixSums ==
  [][ /\ (op'.fn = "new_picture" /\ op'.ret = "OK")
         => /\ vkpic'[1].slice_offsets = <<0>>
            /\ vkpic'[1].data.nNumSlices = 0
      /\ op'.fn = "start_picture"
         => /\ vkpic'[1].slice_offsets = vkpic[1].slice_offsets
            /\ vkpic'[1].data.nNumSlices = 0
      /\ op'.fn = "decode_slice"
         => /\ vkpic'[1].slice_offsets =
                 Append(vkpic[1].slice_offsets,
                        vkpic[1].slice_offsets[Len(vkpic[1].slice_offsets)]
                          + Len(op'.nalu) + 3)
            /\ vkpic'[1].data.nNumSlices = vkpic[1].data.nNumSlices + 1 ]_vars

\* payloads of 5 and of 7 bytes were appended: offsets 0, 8, 18 and count 2
C7_Witness ==
  /\ pc = "started"
  /\ vkpic[1].bitstream = nal \o Payload5 \o nal \o Payload7
  /\ vkpic[1].slice_offsets = <<0, 8, 18>>
  /\ vkpic[1].data.nNumSlices = 2

\* C8 as stated: as long as the session exists, end_picture run or not, its
\* slice_offsets is well formed for its slice count
C8_OffsetsAlwaysWellFormed ==
  vkpic # NULL
    => WellFormedOffsets(vkpic[1].slice_offsets, vkpic[1].data.nNumSlices)

\* C8, amended: until end_picture runs on the session its slice_offsets is
\* well formed for its slice count, and so are the offsets DecodePicture is
\* handed; end_picture leaves the session's array empty and the count as it was
C8_OffsetsWellFormedUntilStolen ==
  /\ (vkpic # NULL /\ vkpic[1].data.pSliceDataOffsets = NULL)
       => WellFormedOffsets(vkpic[1].slice_offsets, vkpic[1].data.nNumSlices)
  /\ (vkpic # NULL /\ vkpic[1].data.pSliceDataOffsets # NULL)
       => vkpic[1].slice_offsets = <<>>
  /\ Submitted
       => /\ WellFormedOffsets(calls[1].pSliceDataOffsets, calls[1].data.nNumSlices)
          /\ calls[1].data.nNumSlices = vkpic[1].data.nNumSlices

\* two slices, the second shorter than the first, were submitted
C8_Witness ==
  /\ Submitted
  /\ calls[1].pSliceDataOffsets = <<0, 8, 11>>
  /\ vkpic[1].data.nNumSlices = 2
  /\ vkpic[1].slice_offsets = <<>>

\* C9: the buffer begins empty, every decode_slice appends 00 00 01 and then
\* the payload, the appended bytes lying between the last offset and the new
\* one, and end_picture hands the buffer and the offsets as they are; so the
\* buffer DecodePicture receives is the slices in arrival order, slice i
\* between offsets i and i+1 and beginning with 00 00 01
C9_BufferIsStartCodedSlices ==
  [][ /\ (op'.fn = "new_picture" /\ op'.ret = "OK") => vkpic'[1].bitstream = <<>>
      /\ op'.fn = "start_picture" => vkpic'[1].bitstream = vkpic[1].bitstream
      /\ op'.fn = "decode_slice"
         => LET old == vkpic[1].bitstream
                new == vkpic'[1].bitstream
                from == vkpic'[1].slice_offsets[Len(vkpic[1].slice_offsets)]
                to == vkpic'[1].slice_offsets[Len(vkpic'[1].slice_offsets)]
            IN  /\ from = Len(old)
                /\ to = Len(new)
                /\ SubSeq(new, 1, from) = old
                /\ SubSeq(new, from + 1, from + 3) = <<0, 0, 1>>
                /\ SubSeq(new, from + 4, to) = op'.nalu
      /\ (op'.fn = "end_picture" /\ client)
         => /\ calls'[1].pBitstreamData = vkpic[1].bitstream
            /\ calls'[1].pSliceDataOffsets = vkpic[1].slice_offsets
            /\ calls'[1].data.nBitstreamDataLen = Len(vkpic[1].bitstream)
            /\ \A i \in 1..calls'[1].data.nNumSlices :
                 SubSeq(calls'[1].pBitstreamData,
                        calls'[1].pSliceDataOffsets[i] + 1,
                        calls'[1].pSliceDataOffsets[i] + 3) = <<0, 0, 1>> ]_vars

\* the buffer of two slices, one of them empty, was submitted
C9_Witness ==
  /\ Submitted
  /\ calls[1].pBitstreamData = <<0, 0, 1, 0, 0, 1, 255>>
  /\ calls[1].pSliceDataOffsets = <<0, 3, 7>>

----------------------------------------------------------------------------
(* Properties of the reference table.                                       *)

\* the scan positions of the DPB pictures marked as reference
RefPositions(dpb_array) == { p \in 1..Len(dpb_array) : dpb_array[p].ref # 0 }

\* the slot of the reference picture at scan position p: the number of
\* reference pictures scanned before it
SlotOf(dpb_array, p) == Cardinality({ q \in RefPositions(dpb_array) : q < p })

\* C10: after start_picture on a DPB of at most MaxRefPics reference
\* pictures, which succeeds, the k-th reference picture in scan order has its
\* handle, POC and long-term flag in slot k, and the slots past the number of
\* reference pictures are unused
C10_ReferenceTableInScanOrder ==
  op.fn = "start_picture"
    => LET h265 == vkpic[1].data.hevc
           refs == RefPositions(op.dpb)
       IN  Cardinality(refs) <= MaxRefPics
             => /\ op.ret = "OK"
                /\ \A p \in refs :
                     /\ h265.RefPics[SlotOf(op.dpb, p)] = op.dpb[p].frame.pic
                     /\ h265.PicOrderCntVal[SlotOf(op.dpb, p)]
                          = op.dpb[p].pic_order_cnt
                     /\ h265.IsLongTerm[SlotOf(op.dpb, p)] = op.dpb[p].long_term
                /\ \A k \in Cardinality(refs)..(MaxRefPics - 1) :
                     /\ h265.RefPics[k] = NULL
                     /\ h265.PicOrderCntVal[k] = 0
                     /\ h265.IsLongTerm[k] = 0

\* a DPB of five pictures, the first and the fourth not references, gave a
\* table of three slots, the last of them long-term
C10_Witness ==
  /\ client
  /\ op.fn = "start_picture"
  /\ op.ret = "OK"
  /\ Len(op.dpb) = 5
  /\ RefPositions(op.dpb) = {2, 3, 5}
  /\ vkpic[1].data.hevc.RefPics[0] = <<"pic", 2>>
  /\ vkpic[1].data.hevc.RefPics[2] = <<"pic", 5>>
  /\ vkpic[1].data.hevc.PicOrderCntVal[2] = 50
  /\ vkpic[1].data.hevc.IsLongTerm[2] = 1
  /\ vkpic[1].data.hevc.RefPics[3] = NULL

\* the writes made past the end of the three arrays of the reference table
TableOverflow(h265) == { w \in h265.overflow : w[1] = "RefPics" }

\* C11: start_picture returns the error exactly when the DPB holds more than
\* MaxRefPics reference pictures, and whatever it returns it writes no slot
\* past the end of the table
C11_ErrorIffTableExceeded ==
  op.fn = "start_picture"
    => /\ op.ret = "ERROR" <=> Cardinality(RefPositions(op.dpb)) > MaxRefPics
       /\ op.ret \in {"OK", "ERROR"}
       /\ TableOverflow(vkpic[1].data.hevc) = {}
       /\ DOMAIN vkpic[1].data.hevc.RefPics = 0..(MaxRefPics - 1)

\* a DPB of MaxRefPics + 1 reference pictures was refused after the first
\* MaxRefPics of them had filled the table
C11_Witness ==
  /\ client
  /\ op.fn = "start_picture"
  /\ op.ret = "ERROR"
  /\ pc = "failed"
  /\ Cardinality(RefPositions(op.dpb)) = MaxRefPics + 1
  /\ vkpic[1].data.hevc.RefPics[MaxRefPics - 1] = <<"pic", MaxRefPics>>

----------------------------------------------------------------------------
(* Properties of the classification index arrays.                           *)

\* the positions below count of a classification list that hold a picture,
\* in scan order
NonNullPositions(list) ==
  SelectSeq([x \in 1..Len(list.pictures) |-> x],
            LAMBDA x : x <= list.count /\ list.pictures[x] # NULL)

\* the table slots, among the num_ref_pic written, that carry the POC
SlotsOfPoc(h265, num_ref_pic, poc) ==
  { k \in 0..(num_ref_pic - 1) : h265.PicOrderCntVal[k] = poc }

\* the value output position n of an index array must hold for the list: the
\* first slot with the POC of the n-th entry that holds a picture, or the
\* initial 0 when there is no such entry, no such slot, or n is not below
\* the number of table slots
IndexFor(h265, num_ref_pic, list, n) ==
  LET found == NonNullPositions(list) IN
  IF n < Len(found) /\ n < num_ref_pic
    THEN LET slots == SlotsOfPoc(h265, num_ref_pic,
                                 list.pictures[found[n + 1]][1].pic_order_cnt)
         IN  IF slots = {} THEN 0
             ELSE CHOOSE k \in slots : \A other \in slots : k <= other
    ELSE 0

\* the index array holds, at every position, the value the list calls for
ResolvedFrom(h265, num_ref_pic, array, list) ==
  \A n \in 0..(RefPicSetSize - 1) :
    h265[array][n] = IndexFor(h265, num_ref_pic, list, n)

\* C12: after a start_picture that succeeds, in each of the three index
\* arrays position n holds the first table slot with the POC of the n-th
\* entry, among the first count of the list, that holds a picture, if n is
\* below the number of table slots and such a slot exists; every other
\* position holds the initial 0
C12_IndexOfNthNonNullEntry ==
  (op.fn = "start_picture" /\ op.ret = "OK")
    => LET h265 == vkpic[1].data.hevc
           num_ref_pic == Cardinality(RefPositions(op.dpb))
       IN  /\ ResolvedFrom(h265, num_ref_pic, "RefPicSetStCurrBefore", op.rps.before)
           /\ ResolvedFrom(h265, num_ref_pic, "RefPicSetStCurrAfter", op.rps.after)
           /\ ResolvedFrom(h265, num_ref_pic, "RefPicSetLtCurr", op.rps.lt)

\* with table POCs 10, 20, 30 and the before list null, 20, null, position 0
\* of the before array is the slot of POC 20 and no other position is set
C12_Witness ==
  /\ op.fn = "start_picture"
  /\ op.ret = "OK"
  /\ op.dpb = dpb_sessions(DpbOfReferences(3))
  /\ op.rps.before = MkList(<<-1, 20, -1>>, 3)
  /\ vkpic[1].data.hevc.RefPicSetStCurrBefore
       = [n \in 0..(RefPicSetSize - 1) |-> IF n = 0 THEN 1 ELSE 0]

----------------------------------------------------------------------------
(* Properties of the descriptors a picture is submitted with.               *)

\* the picture descriptor points at the descriptors of the holder
PointsAt(h265, holder) ==
  /\ h265.pStdSps = <<holder, "sps">>
  /\ h265.pStdPps = <<holder, "pps">>
  /\ h265.pStdVps = <<holder, "vps">>

\* the session holds the descriptors derived from the picture's own
\* parameter sets, and the picture descriptor points at them
DerivedForPicture ==
  /\ PointsAt(vkpic[1].data.hevc, "vkpic")
  /\ vkpic[1].vkp = fill_pps(op.slice.pps, fill_sps(op.slice.sps, VkH265Picture))

\* the picture descriptor points at the shared descriptors, and the session
\* holds none
SharedWithCache ==
  /\ PointsAt(vkpic[1].data.hevc, "self")
  /\ vkpic[1].vkp = VkH265Picture

\* C13 as stated: without oob-pic-params start_picture points the picture
\* at the shared descriptors and derives nothing, with oob-pic-params it
\* derives the descriptors for the picture
C13_DefaultSharesCache ==
  op.fn = "start_picture"
    => IF oob_pic_params THEN DerivedForPicture ELSE SharedWithCache

\* C13, amended: without oob-pic-params (the default) start_picture derives
\* the SPS and PPS descriptors from the picture's own parameter sets into the
\* session and points the picture at them; with oob-pic-params it does the
\* same as long as sps_update_count is 0, and points the picture at the
\* shared descriptors, deriving nothing, once an SPS change was accepted
C13_DefaultDerivesPerPicture ==
  op.fn = "start_picture"
    => IF (~oob_pic_params) \/ sps_update_count = 0
         THEN DerivedForPicture
         ELSE SharedWithCache

\* in the default configuration, with SPS and PPS changes accepted and
\* published, a picture was started with descriptors of its own that differ
\* from the shared ones
C13_Witness ==
  /\ client
  /\ ~oob_pic_params
  /\ sps_update_count > 0
  /\ pps_update_count > 0
  /\ op.fn = "start_picture"
  /\ DerivedForPicture
  /\ vkpic[1].vkp.sps # vkp.sps

----------------------------------------------------------------------------
(* Properties of the conversions.                                           *)

\* members of StdVideoH265SpsFlags read from sps_extension_params
StdSpsRangeFlags == SpsExtensionFields

\* members of StdVideoH265SpsFlags read from sps_scc_extension_params
StdSpsSccFlags ==
  { "sps_curr_pic_ref_enabled_flag", "palette_mode_enabled_flag",
    "sps_palette_predictor_initializer_present_flag",
    "intra_boundary_filtering_disabled_flag" }

\* members of StdVideoH265SequenceParameterSet read from
\* sps_scc_extension_params
StdSpsSccValues ==
  { "palette_max_size", "delta_palette_max_predictor_size",
    "motion_vector_resolution_control_idc",
    "sps_num_palette_predictor_initializer_minus1" }

\* members of StdVideoH265PpsFlags read from pps_extension_params
StdPpsRangeFlags ==
  { "cross_component_prediction_enabled_flag",
    "chroma_qp_offset_list_enabled_flag" }

\* members of StdVideoH265PictureParameterSet read from pps_extension_params
StdPpsRangeValues ==
  { "log2_max_transform_skip_block_size_minus2",
    "diff_cu_chroma_qp_offset_depth", "chroma_qp_offset_list_len_minus1",
    "log2_sao_offset_scale_luma", "log2_sao_offset_scale_chroma" }

\* members of StdVideoH265PpsFlags read from pps_scc_extension_params
StdPpsSccFlags ==
  { "pps_curr_pic_ref_enabled_flag",
    "residual_adaptive_colour_transform_enabled_flag",
    "pps_slice_act_qp_offsets_present_flag",
    "pps_palette_predictor_initializer_present_flag",
    "monochrome_palette_flag" }

\* members of StdVideoH265PictureParameterSet read from
\* pps_scc_extension_params
StdPpsSccValues ==
  { "pps_act_y_qp_offset_plus5", "pps_act_cb_qp_offset_plus5",
    "pps_act_cr_qp_offset_plus5", "pps_num_palette_predictor_initializer",
    "luma_bit_depth_entry_minus8", "chroma_bit_depth_entry_minus8" }

\* every named member of the record is zero
AllZero(r, fields) == \A f \in fields : r[f] = 0

\* the SPS descriptor holds nothing of the sub-structures whose flag is clear
\* in the record
SpsGuardsHonoured(sps, d) ==
  /\ sps.vui_parameters_present_flag = 0 => d.pSequenceParameterSetVui = NULL
  /\ sps.sps_extension_flag = 0 => AllZero(d.flags, StdSpsRangeFlags)
  /\ sps.sps_scc_extension_flag = 0
       => AllZero(d.flags, StdSpsSccFlags) /\ AllZero(d, StdSpsSccValues)

\* the PPS descriptor holds nothing of the sub-structures whose flag is clear
\* in the record
PpsGuardsHonoured(pps, d) ==
  /\ pps.pps_range_extension_flag = 0
       => AllZero(d.flags, StdPpsRangeFlags) /\ AllZero(d, StdPpsRangeValues)
  /\ pps.pps_scc_extension_flag = 0
       => AllZero(d.flags, StdPpsSccFlags) /\ AllZero(d, StdPpsSccValues)

\* C14: in the descriptor converted from an SPS or PPS record, every member
\* that comes from the VUI, range-extension or SCC-extension sub-structure is
\* zero (the VUI pointer is NULL) when the presence flag of that
\* sub-structure is clear in the record, whatever the sub-structure holds
C14_ClearFlagLeavesZero ==
  /\ SpsGuardsHonoured(last_sps, vkp.sps)
  /\ PpsGuardsHonoured(last_pps, vkp.pps)

----------------------------------------------------------------------------
(* Properties of end_picture and of the failure paths.                      *)

\* the operation that ran last is gst_h265_dec_end_picture
Ends == op'.fn = "end_picture"

\* how many times the pointer is in the sequence of freed pointers
TimesFreed(ptr, freed) == Cardinality({i \in 1..Len(freed) : freed[i] = ptr})

\* C15: end_picture empties the session's byte array and offsets array, hands
\* their content to DecodePicture in exactly one call when there is a client
\* (no call without one), returns ERROR exactly when that call fails, and
\* frees each of the two stolen buffers exactly once whatever it returns
C15_EndPictureStealsSubmitsFrees ==
  [][ Ends =>
        /\ vkpic'[1].bitstream = <<>>
        /\ vkpic'[1].slice_offsets = <<>>
        /\ calls' = (IF client
                       THEN << DecodePicture(vkpic'[1].data, vkpic[1].bitstream,
                                             vkpic[1].slice_offsets,
                                             op'.ret = "OK") >>
                       ELSE <<>>)
        /\ (op'.ret = "ERROR") <=> (calls' # <<>> /\ ~calls'[1].ok)
        /\ TimesFreed(vkpic'[1].data.pBitstreamData, op'.freed) = 1
        /\ TimesFreed(vkpic'[1].data.pSliceDataOffsets, op'.freed) = 1
        /\ Len(op'.freed) = 2 ]_vars

\* C15 witness: an end_picture with a client whose DecodePicture failed, on a
\* picture that had accumulated a slice
C15_Witness ==
  /\ op.fn = "end_picture" /\ op.ret = "ERROR"
  /\ Len(calls) = 1 /\ calls[1].fn = "DecodePicture"
  /\ Len(calls[1].pBitstreamData) > 0
  /\ vkpic[1].bitstream = <<>>

\* the three index arrays of the picture descriptor
IndexArrays == {"RefPicSetStCurrBefore", "RefPicSetStCurrAfter", "RefPicSetLtCurr"}

\* output position n of the list's index array is a miss: the list has no
\* n-th entry that holds a picture, or no table slot carries that entry's POC
Missed(h265, num_ref_pic, list, n) ==
  LET found == NonNullPositions(list) IN
  \/ n >= Len(found)
  \/ SlotsOfPoc(h265, num_ref_pic,
                list.pictures[found[n + 1]][1].pic_order_cnt) = {}

\* the classification list an index array is resolved from
ListOf(rps, array) ==
  IF array = "RefPicSetStCurrBefore" THEN rps.before
  ELSE IF array = "RefPicSetStCurrAfter" THEN rps.after
  ELSE rps.lt

\* C16: a start_picture on a DPB of at most MaxRefPics reference pictures
\* returns OK whatever the classification lists hold; every output position
\* that is a miss holds its initial 0; and outside the three index arrays the
\* picture descriptor is what the literals and the reference table alone give
C16_MissKeepsDefault ==
  (op.fn = "start_picture" /\ Cardinality(RefPositions(op.dpb)) <= MaxRefPics)
    => LET h265 == vkpic[1].data.hevc
           num_ref_pic == Cardinality(RefPositions(op.dpb))
           base == fill_ref_table(
                     hevc_literal(h265.pStdSps[1], op.picture, op.slice, op.rps),
                     op.dpb)
       IN  /\ op.ret = "OK"
           /\ \A array \in IndexArrays : \A n \in 0..(RefPicSetSize - 1) :
                Missed(h265, num_ref_pic, ListOf(op.rps, array), n)
                  => h265[array][n] = 0
           /\ \A f \in (DOMAIN h265) \ IndexArrays : h265[f] = base[f]
           /\ [vkpic[1].data EXCEPT !.hevc = ZeroHevc]
                = picture_data_literal(vkpic[1].pic, op.picture, op.slice.sps)

\* C16 witness: with table POCs 10, 20, 30 the lt list names POC 10 and then
\* POC 99, which no slot carries: position 1 of the lt array kept its 0, and
\* the before list ran out of entries after its first
C16_Witness ==
  /\ op.fn = "start_picture"
  /\ op.ret = "OK"
  /\ op.dpb = dpb_sessions(DpbOfReferences(3))
  /\ op.rps.lt = MkList(<<10, 99>>, 2)
  /\ op.rps.before = MkList(<<-1, 20, -1>>, 3)
  /\ vkpic[1].data.hevc.RefPicSetLtCurr[1] = 0
  /\ vkpic[1].data.hevc.RefPicSetStCurrBefore[1] = 0
  /\ vkpic[1].data.hevc.RefPicSetStCurrBefore[0] = 1

\* the operation makes the backend call of the name
Calls(fn) == \E i \in 1..Len(calls') : calls'[i].fn = fn

\* the operation makes the backend call of the name and the backend fails it
FailedCall(fn) == \E i \in 1..Len(calls') : calls'[i].fn = fn /\ ~calls'[i].ok

\* C17: a new_picture whose AllocPictureBuffer fails returns ERROR and leaves
\* the picture without a session; an end_picture whose DecodePicture fails
\* returns ERROR; and when the driver runs the picture operations in order
\* and stops at the first failure, DisplayPicture is called only for a picture
\* that has a session and right after its end_picture returned OK
C17_FailedPictureNotDisplayed ==
  [][ /\ FailedCall("AllocPictureBuffer")
         => (op'.fn = "new_picture" /\ op'.ret = "ERROR"
             /\ vkpic' = NULL /\ vkpic = NULL)
      /\ FailedCall("DecodePicture")
         => (op'.fn = "end_picture" /\ op'.ret = "ERROR")
      /\ Calls("DisplayPicture")
         => (/\ op.fn = "end_picture" /\ op.ret = "OK"
             /\ vkpic # NULL
             /\ calls'[1] = DisplayPicture(vkpic[1].pic, calls'[1].ok)) ]_vars

\* C17 witness: AllocPictureBuffer failed and the picture has no session
C17_Witness ==
  /\ client
  /\ op.fn = "new_picture" /\ op.ret = "ERROR"
  /\ Len(calls) = 1 /\ calls[1].fn = "AllocPictureBuffer" /\ ~calls[1].ok
  /\ vkpic = NULL
  /\ pc = "idle"

----------------------------------------------------------------------------
(* Properties of the correlation tokens.                                    *)

\* the token members that hold a token
HeldTokens == {spsclient, ppsclient, vpsclient} \ {NULL}

\* the positions of the calls that release the token
ReleasesOf(token, cs) ==
  { i \in 1..Len(cs) : "token" \in DOMAIN cs[i] /\ cs[i] = ReleaseToken(token) }

\* the positions of the calls that release some token
TokenReleases(cs) == { i \in 1..Len(cs) : "token" \in DOMAIN cs[i] }

\* C18: the teardown releases every token the decoder holds, once each, and
\* makes no other call; no other operation releases a token or lets go of
\* one it holds; the VPS token is never created, so there is none to release
C18_TokensReleasedAtTeardownOnly ==
  [][ /\ op'.fn = "dispose"
         => /\ \A token \in HeldTokens :
                 Cardinality(ReleasesOf(token, calls')) = 1
            /\ Len(calls') = Cardinality(HeldTokens)
      /\ op'.fn # "dispose"
         => /\ TokenReleases(calls') = {}
            /\ spsclient # NULL => spsclient' = spsclient
            /\ ppsclient # NULL => ppsclient' = ppsclient
      /\ vpsclient' = NULL ]_vars

\* C18 witness: the teardown of a decoder that held the SPS and the PPS token
\* released both
C18_Witness ==
  /\ op.fn = "dispose"
  /\ pc = "disposed"
  /\ spsclient # NULL /\ ppsclient # NULL
  /\ calls = << ReleaseToken(spsclient), ReleaseToken(ppsclient) >>

----------------------------------------------------------------------------
(* The picture operations and the parameter cache.                          *)

\* the operations of the picture lifecycle
PictureOps ==
  {"new_picture", "start_picture", "decode_slice", "end_picture", "output_picture"}

\* C19: no operation of the picture lifecycle changes the cached records, the
\* update counters, the shared descriptors or the tokens; a start_picture
\* that returns the error does so for a DPB of more than MaxRefPics reference
\* pictures only; and a start_picture on a DPB of at most MaxRefPics
\* reference pictures succeeds whatever came before it
C19_PictureOpsLeaveCache ==
  /\ [][ op'.fn \in PictureOps => (UNCHANGED cache /\ UNCHANGED tokens) ]_vars
  /\ [](op.fn = "start_picture"
          => IF Cardinality(RefPositions(op.dpb)) <= MaxRefPics
               THEN op.ret = "OK" /\ pc = "started"
               ELSE op.ret = "ERROR" /\ pc = "failed")

\* C19 witness: a start_picture failed on a DPB of MaxRefPics + 1 reference
\* pictures while the cache held an accepted SPS and PPS
C19_Witness ==
  /\ op.fn = "start_picture" /\ op.ret = "ERROR"
  /\ Cardinality(RefPositions(op.dpb)) = MaxRefPics + 1
  /\ sps_update_count > 0 /\ pps_update_count > 0
  /\ last_sps \in SpsFew
  /\ vkp.sps = fill_sps(last_sps, VkH265Picture).sps

----------------------------------------------------------------------------
(* The compare functions against the conversions.                           *)

\* C20: when an observe finds an SPS or PPS record equal to the cached one
\* and returns, converting that record would leave the shared descriptors of
\* its kind (for an SPS, the VUI block it points at included) as they are
C20_SuppressedRecordConvertsAlike ==
  [][ /\ (Observes("SPS") /\ sps_cmp(last_sps, op'.nalu))
         => /\ fill_sps(op'.nalu, vkp).sps = vkp.sps
            /\ fill_sps(op'.nalu, vkp).vui = vkp.vui
      /\ (Observes("PPS") /\ pps_cmp(last_pps, op'.nalu))
         => fill_pps(op'.nalu, vkp).pps = vkp.pps ]_vars

----------------------------------------------------------------------------
(* The sequence numbers of the publications.                                *)

\* the observe of the kind made a call to the backend
Published(type) == Observes(type) /\ calls' # <<>>

\* C21 as stated: the number a publication carries is the value of the
\* kind's counter after the increment of that accepted change
C21_PublishCarriesCountAfter ==
  [][ /\ Published("SPS") => calls'[1].updateSequenceCount = sps_update_count'
      /\ Published("PPS") => calls'[1].updateSequenceCount = pps_update_count' ]_vars

\* C21: the publication of an accepted SPS or PPS change is made with the
\* record stored, the shared descriptor converted from it and the counter
\* incremented, and it carries the value the counter had before the
\* increment: the publications of one kind carry 0, 1, 2, ... without gap or
\* repeat, whether or not earlier ones failed
C21_PublishCarriesCountBefore ==
  [][ /\ Published("SPS")
         => /\ last_sps' = op'.nalu
            /\ vkp' = fill_sps(op'.nalu, vkp)
            /\ sps_update_count' = sps_update_count + 1
            /\ Len(calls') = 1
            /\ calls'[1].updateSequenceCount = sps_update_count
      /\ Published("PPS")
         => /\ last_pps' = op'.nalu
            /\ vkp' = fill_pps(op'.nalu, vkp)
            /\ pps_update_count' = pps_update_count + 1
            /\ Len(calls') = 1
            /\ calls'[1].updateSequenceCount = pps_update_count ]_vars

\* C21 witness: the second accepted SPS change was published with number 1
C21_Witness ==
  /\ Observed("SPS")
  /\ Len(calls) = 1
  /\ calls[1].updateSequenceCount = 1
  /\ sps_update_count = 2

----------------------------------------------------------------------------
(* The trailing offset and the submitted length.                            *)

\* the last entry of a sequence
Last(seq) == seq[Len(seq)]

\* C22: after new_picture, start_picture and every decode_slice the last
\* entry of the session's slice_offsets is the length of its bitstream, and
\* end_picture writes that entry as nBitstreamDataLen, which is the length of
\* the buffer and the last of the offsets DecodePicture is handed
C22_LastOffsetIsLength ==
  [][ /\ (op'.fn \in {"new_picture", "start_picture", "decode_slice"}
          /\ vkpic' # NULL)
         => Last(vkpic'[1].slice_offsets) = Len(vkpic'[1].bitstream)
      /\ op'.fn = "end_picture"
         => /\ vkpic'[1].data.nBitstreamDataLen = Last(vkpic[1].slice_offsets)
            /\ vkpic'[1].data.nBitstreamDataLen = Len(vkpic[1].bitstream)
            /\ client => /\ calls'[1].data.nBitstreamDataLen
                              = Last(calls'[1].pSliceDataOffsets)
                         /\ calls'[1].data.nBitstreamDataLen
                              = Len(calls'[1].pBitstreamData) ]_vars

\* C22 witness: a picture of a 5-byte and a 7-byte slice was submitted with
\* length 18, the last of its offsets
C22_Witness ==
  /\ Submitted
  /\ calls[1].data.nBitstreamDataLen = 18
  /\ Last(calls[1].pSliceDataOffsets) = 18
  /\ Len(calls[1].pBitstreamData) = 18

----------------------------------------------------------------------------
(* The conversions, member by member.                                       *)

\* C23: once a record of the kind has been accepted, the SPS descriptor's
\* transform_skip_rotation_enabled_flag is that of the record's range
\* extension when sps_extension_flag is set, the PPS descriptor's cb and cr
\* qp-offset lists are the lists of the record's range extension, and the
\* act cr qp offset the descriptor encodes (plus 5) is the one the record
\* encodes (plus 3)
C23_SameMeaningMembers ==
  /\ (sps_update_count > 0 /\ last_sps.sps_extension_flag # 0)
       => vkp.sps.flags.transform_skip_rotation_enabled_flag
            = last_sps.sps_extension_params.transform_skip_rotation_enabled_flag
  /\ pps_update_count > 0
       => /\ vkp.pps.cb_qp_offset_list = last_pps.pps_extension_params.cb_qp_offset_list
          /\ vkp.pps.cr_qp_offset_list = last_pps.pps_extension_params.cr_qp_offset_list
          /\ vkp.pps.pps_act_cr_qp_offset_plus5 - 5
               = last_pps.pps_scc_extension_params.pps_act_cr_qp_offset_plus3 - 3

\* the destination array holds the entries of the source array, one by one
CopiedEntryByEntry(dst, src) == \A k \in DOMAIN dst : dst[k] = src[k]

\* C24: once a record of the kind has been accepted, the PPS descriptor's
\* tile column-width and row-height tables hold the record's tables entry by
\* entry, and the decoder-picture-buffer limits the SPS descriptor points at
\* hold the SPS record's per-sub-layer arrays entry by entry
C24_ArraysCopiedVerbatim ==
  /\ pps_update_count > 0
       => /\ CopiedEntryByEntry(vkp.pps.column_width_minus1,
                                last_pps.column_width_minus1)
          /\ CopiedEntryByEntry(vkp.pps.row_height_minus1,
                                last_pps.row_height_minus1)
  /\ sps_update_count > 0
       => /\ vkp.sps.pDecPicBufMgr # NULL
          /\ \A a \in SpsCmpArrays : CopiedEntryByEntry(vkp.pic_buf_mgr[a], last_sps[a])

\* the SPS entry of the cache: last value, counter, shared descriptors, token
SpsEntry == <<last_sps, sps_update_count, vkp.sps, vkp.vui, spsclient>>

\* the PPS entry of the cache: last value, counter, shared descriptor, token
PpsEntry == <<last_pps, pps_update_count, vkp.pps, ppsclient>>

\* C25: an SPS observe leaves the PPS entry as it was and a PPS observe the
\* SPS entry, neither touches the cached VPS, and a VPS observe, changed or
\* not, leaves both counters and every shared descriptor as they were
C25_ObserveTouchesOwnKindOnly ==
  [][ /\ Observes("SPS") => (UNCHANGED PpsEntry /\ UNCHANGED last_vps)
      /\ Observes("PPS") => (UNCHANGED SpsEntry /\ UNCHANGED last_vps)
      /\ Observes("VPS")
           => /\ UNCHANGED <<sps_update_count, pps_update_count, vkp>>
              /\ UNCHANGED <<last_sps, last_pps>> ]_vars

\* a VPS that differs from the cached one was observed and stored after both
\* an SPS and a PPS were accepted and converted
C25_Witness ==
  /\ Observed("VPS")
  /\ last_vps = op.nalu
  /\ last_vps # ZeroVPS
  /\ sps_update_count > 0
  /\ pps_update_count > 0
  /\ vkp.sps # VkH265Picture.sps
  /\ vkp.pps # VkH265Picture.pps

\* C26: the first SPS (PPS) observed after the start, whatever the record,
\* is stored as the cached value, counted as the first accepted change and,
\* with a client, published with one call
C26_FirstRecordAccepted ==
  [][ /\ (Observes("SPS") /\ sps_update_count = 0 /\ last_sps = ZeroSPS)
         => /\ last_sps' = op'.nalu
            /\ sps_update_count' = 1
            /\ vkp' = fill_sps(op'.nalu, vkp)
            /\ client => Publication("SPS", 0, calls')
      /\ (Observes("PPS") /\ pps_update_count = 0 /\ last_pps = ZeroPPS)
         => /\ last_pps' = op'.nalu
            /\ pps_update_count' = 1
            /\ vkp' = fill_pps(op'.nalu, vkp)
            /\ client => Publication("PPS", 0, calls') ]_vars

\* with a client, the first SPS observed was the record that differs from the
\* zeroed cache in valid alone, and it was published; the first PPS had been
\* accepted before
C26_Witness ==
  /\ client
  /\ Observed("SPS")
  /\ op.nalu = BareSps
  /\ last_sps = BareSps
  /\ sps_update_count = 1
  /\ Publication("SPS", 0, calls)
  /\ last_pps = BarePps
  /\ pps_update_count = 1

----------------------------------------------------------------------------
(* The bounds of the classification index arrays.                           *)

\* C27: after a start_picture on a DPB of at most MaxRefPics reference
\* pictures, no write into RefPicSetStCurrBefore, RefPicSetStCurrAfter or
\* RefPicSetLtCurr was made at a position of RefPicSetSize or above
C27_IndexWritesWithinCapacity ==
  (op.fn = "start_picture" /\ Cardinality(RefPositions(op.dpb)) <= MaxRefPics)
    => vkpic[1].data.hevc.overflow = {}

\* C28: after a start_picture that returns OK, an output position of an index
\* array that is a miss holds a value that is no index of a slot of the
\* reference table
C28_UnresolvedIsNoSlotIndex ==
  (op.fn = "start_picture" /\ op.ret = "OK")
    => LET h265 == vkpic[1].data.hevc
           num_ref_pic == Cardinality(RefPositions(op.dpb))
       IN  \A array \in IndexArrays : \A n \in 0..(RefPicSetSize - 1) :
             Missed(h265, num_ref_pic, ListOf(op.rps, array), n)
               => h265[array][n] \notin 0..(num_ref_pic - 1)

----------------------------------------------------------------------------
(* The descriptors of a submitted picture.                                  *)

\* C29: with oob-pic-params, start_picture points the picture at the shared
\* descriptors when both an SPS change and a PPS change have been accepted,
\* and derives the descriptors from the picture's own parameter sets when
\* either counter is still 0
C29_SharedNeedsBothKinds ==
  (op.fn = "start_picture" /\ oob_pic_params)
    => IF sps_update_count > 0 /\ pps_update_count > 0
         THEN SharedWithCache
         ELSE DerivedForPicture

\* C30: the ref_pic_flag of the descriptor end_picture passes to
\* DecodePicture is the one start_picture wrote into the session from
\* picture->ref
C30_SubmittedFlagIsPictureRef ==
  [][ (op'.fn = "end_picture" /\ calls' # <<>>)
        => calls'[1].data.ref_pic_flag = vkpic[1].data.ref_pic_flag ]_vars

----------------------------------------------------------------------------
(* References held by the picture operations.                               *)

\* C31: the array gst_h265_dpb_get_pictures_all returns to start_picture is
\* unreferenced once before start_picture returns, whether it returns OK or
\* ERROR
C31_SnapshotReleasedOnEveryReturn ==
  op.fn = "start_picture" => op.unrefs = 1

\* the calls of Release among the backend calls of an operation
Releases(cs) == { i \in 1..Len(cs) : cs[i].fn = "Release" }

\* C32: without a client no operation calls a method of a picture handle,
\* and the session is started, finalized and freed with the decoder going
\* on; with a client the handle of a session is released once, by the
\* operation that frees the session, and by no other
C32_HandleUsedOnlyWithClient ==
  [][ /\ ~client => (Releases(calls') = {} /\ pc' # "crashed")
      /\ client => Cardinality(Releases(calls'))
                     = (IF vkpic # NULL /\ vkpic' = NULL THEN 1 ELSE 0)
      /\ client => \A i \in Releases(calls') : calls'[i].pic = vkpic[1].pic ]_vars

\* the number of times the sequence holds the element
Times(seq, x) == Cardinality({ i \in 1..Len(seq) : seq[i] = x })

\* C33: an output_picture calls DisplayPicture once with a client and not at
\* all without one; when the call fails it returns ERROR and does not finish
\* the frame, otherwise it finishes the frame once; and on either path it
\* drops its reference to the picture once, before anything else
C33_OutputDisplaysOnceAndUnrefsOnce ==
  [][ op'.fn = "output_picture"
        => /\ Cardinality({ i \in 1..Len(calls') : calls'[i].fn = "DisplayPicture" })
                = (IF client THEN 1 ELSE 0)
           /\ Times(op'.steps, "gst_h265_picture_unref") = 1
           /\ op'.steps[1] = "gst_h265_picture_unref"
           /\ IF FailedCall("DisplayPicture")
                THEN /\ op'.ret = "ERROR"
                     /\ Times(op'.steps, "gst_video_decoder_finish_frame") = 0
                ELSE Times(op'.steps, "gst_video_decoder_finish_frame") = 1 ]_vars

\* C33 witness: with a client, DisplayPicture failed: output_picture returned
\* ERROR having dropped its reference and not finished the frame
C33_Witness ==
  /\ client
  /\ op.fn = "output_picture"
  /\ op.ret = "ERROR"
  /\ calls # <<>>
  /\ calls[1].fn = "DisplayPicture" /\ ~calls[1].ok
  /\ op.steps = << "gst_h265_picture_unref" >>

====
